---------------------------- MODULE Spec2Model ----------------------------
(***************************************************************************)
(* A model of the forum crawler of src/crawler/src/crawl_one.py (the fetch  *)
(* engines, the structural parser, crawl_forum, main with its persistence  *)
(* and opt-in quarantine pass), of the triage of postproc_darkforums.py,   *)
(* of the batch runner run_darkforums_batches.py, and of the readers of    *)
(* the record logs (alert_system/core.py, quick_detect.py).                *)
(*                                                                         *)
(* The specifications of the module share its variables; each holds the    *)
(* variables of the other parts at their idle values:                      *)
(*   SpecFetch      one fetch_html call of either engine;                  *)
(*   SpecParse      _parse_thread applied twice to one document;           *)
(*   Spec           main: crawl_forum over the forums, save_jsonl and the  *)
(*                  quarantine pass; SpecMirror with --out-sqlite;         *)
(*   SpecChunkRun   main as the subprocess of run_crawl, SpecCrawlLive     *)
(*                  the same crawl without the timeout;                    *)
(*   SpecQuarantine the quarantine pass, SpecZip with --zip-quarantine;    *)
(*   SpecEngines    main's choice of the engine of every forum;            *)
(*   SpecTriage, SpecDedup, SpecSplit   filter_records and triage_split;   *)
(*   SpecBatch, SpecBatchLive           the batch runner;                  *)
(*   SpecAlert, SpecDetect              the readers of the record logs.    *)
(***************************************************************************)
EXTENDS Integers, Sequences, FiniteSets, TLC

VARIABLES
    \* ---- one fetch_html call (SpecFetch)
    engine,        \* "requests" | "playwright": the engine fetch_html is called on
    browser,       \* PlaywrightEngine._browser is set (the engine was entered)
    f_url,         \* the url argument of fetch_html
    f_pc,          \* "call" | "loop" | "done"
    current,       \* _safe_get_html: current
    hops,          \* _safe_get_html: iterations of `for _ in range(5)` begun
    chain,         \* environment: redirects the server answers before the final response
    followed,      \* redirect responses received so far
    requested,     \* URLs handed to session.get / page.goto by the engine
    resp,          \* the final (non-redirect) response received, or NoResp
    outcome,       \* what fetch_html did: returned html or raised
    \* ---- _parse_thread twice on one document (SpecParse)
    p_doc,         \* the HTML document (abstract DOM)
    p_url,         \* the thread_url argument
    p_runs,        \* the ThreadRecords returned so far, in call order
    p_clock,       \* the wall clock read by utcnow_iso
    \* ---- main (Spec)
    m_pc,          \* position in main / crawl_forum
    args,          \* the parsed command line
    forum_i,       \* main: forums of args.forums taken so far
    all_records,   \* main: all_records
    seed_i,        \* crawl_forum: index of start_url in list_urls
    next_url,      \* crawl_forum: next_url (NoURL for None)
    page,          \* crawl_forum: page
    link_nodes,    \* crawl_forum: the link nodes not yet iterated
    page_next,     \* crawl_forum: np_el of the page held in s (optional element)
    seen_on_page,  \* crawl_forum: seen_on_page
    visited_threads, \* crawl_forum: visited_threads
    results,       \* crawl_forum: results
    jsonl,         \* the JSONL log on disk: the records written, in order
    q_rec,         \* quarantine pass: records of all_records taken so far
    q_urls,        \* quarantine pass: att_urls not yet iterated
    q_count,       \* quarantine pass: count
    manifest,      \* quarantine pass: manifest["downloaded"] of the current thread
    manifests,     \* manifest.json files written
    dl_requests,   \* URLs requested by stream_download
    last_dl,       \* the last call of stream_download: its URL, the answer, whether it saved
    quarantine,    \* files saved by stream_download
    dl_session,    \* the requests.Session of the pass: "none" | "open" | "closed"
    dl_open,       \* URLs whose response stream_download received and has not closed
    pyminizip,     \* "module" | "none": whether `import pyminizip` succeeded (lines 666-669)
    archives,      \* the zip archives on disk
    console,       \* what the quarantine archiving printed, in order
    sqlite_db,     \* the SQLite mirror on disk: the committed rows of posts and attachments
    \* ---- history of the run (Spec)
    ev,            \* the last two fetch/sleep events of the current crawl_forum run
    last_link,     \* what the loop over link_nodes did with the last node
    thread_fetched,\* URLs passed to _parse_thread (and so to engine.fetch_html)
    failed,        \* thread URLs whose _parse_thread raised, in the current crawl_forum run
    produced,      \* every record ever appended to a results list
    aborted,       \* forum keys whose crawl_forum raised
    seeds_tried,   \* <<key, start_url>> of every list URL crawl_forum began with
    clock          \* wall clock of the run

fetchVars == <<engine, browser, f_url, f_pc, current, hops, chain, followed,
               requested, resp, outcome>>
parseVars == <<p_doc, p_url, p_runs, p_clock>>
mainVars  == <<m_pc, args, forum_i, all_records, seed_i, next_url, page, link_nodes,
               page_next, seen_on_page, visited_threads, results, jsonl,
               q_rec, q_urls, q_count, manifest, manifests, dl_requests, last_dl,
               quarantine, dl_session, dl_open, pyminizip, archives, console, sqlite_db>>
zipVars   == <<pyminizip, archives, console>>
histVars  == <<ev, last_link, thread_fetched, failed, produced, aborted, seeds_tried, clock>>

VARIABLES
    \* ---- postproc_darkforums.py (SpecTriage, SpecSplit)
    tri_pc,          \* "strict", "relaxed", "triage", "done"
    tlog,            \* the lines of the input .jsonl
    tcfg,            \* the command line of the run
    line_i,          \* lines of the current filter_records pass read so far
    seen_threads,    \* filter_records: seen_threads
    seen_posts,      \* filter_records: seen_posts
    out_records,     \* filter_records: out_records
    out_lines,       \* for each record of out_records, the number of its input line
    strict_records,  \* what the strict pass returned
    strict_lines,
    relaxed_records, \* what the relaxed pass returned
    relaxed_lines,
    split_i,         \* triage_split: records iterated so far
    keep,            \* triage_split: keep
    review,          \* triage_split: review
    drop_meta,       \* triage_split: drop_meta
    scores,          \* triage_split: the value of s in each iteration so far
    \* ---- run_darkforums_batches.py (SpecBatch)
    b_pc,            \* "start", "requests", "playwright", "next", "finished"
    MAX_PAGE,
    CHUNK,
    b_chunks,        \* main: chunks
    chunk_i,         \* index of the chunk of the current loop iteration
    attempt,         \* requests attempts made for the current chunk
    b_runs,          \* every run_crawl call: [start, pages, engine, ok]
    b_produced       \* main: produced

VARIABLES
    \* ---- backend/alert/alert_system/core.py (SpecAlert)
    a_raw,           \* the lines of the file of RAW_DATA_JSONL_FILES
    a_file,          \* the lines of processed_ids.log
    a_streams,       \* for each alert stream, the frame of process_data_and_stream
    a_issues,        \* the items create_github_issue was called with, in order
    a_opens,         \* requests to /stream_alerts so far
    \* ---- connect/crawler/quick_detect.py (SpecDetect)
    qd_pc,           \* "run", "done", "JSONDecodeError"
    qd_in,           \* the lines of in_path
    qd_i,            \* lines read so far
    qd_out           \* the lines written to out_path

VARIABLES
    \* ---- crawl_one.py, main's choice of the engines (SpecEngines)
    e_pc,            \* "start", "forums", "crawl", "after", or the exception main ends with
    e_args,          \* [engine, forums]: --engine and --forums
    e_conf,          \* for each key of the configuration, its "engine" entry
    _playwright_available,
    requests_engine, \* main: requests_engine is not None
    shared_pw,       \* _browser of the shared PlaywrightEngine: "none", "open", "closed"
    e_i,             \* forums taken from args.forums so far
    forum_eng,       \* main: eng, the engine handed to crawl_forum
    e_fetches,       \* fetch_html calls of the current crawl_forum
    fetch_calls,     \* every fetch_html call: [key, engine, browser]
    e_raised         \* the keys whose crawl_forum was left by an exception

triageVars == <<tri_pc, tlog, tcfg, line_i, seen_threads, seen_posts, out_records, out_lines,
                strict_records, strict_lines, relaxed_records, relaxed_lines,
                split_i, keep, review, drop_meta, scores>>
batchVars == <<b_pc, MAX_PAGE, CHUNK, b_chunks, chunk_i, attempt, b_runs, b_produced>>
readerVars == <<a_raw, a_file, a_streams, a_issues, a_opens, qd_pc, qd_in, qd_i, qd_out>>
engVars == <<e_pc, e_args, e_conf, _playwright_available, requests_engine, shared_pw, e_i,
             forum_eng, e_fetches, fetch_calls, e_raised>>
vars == <<fetchVars, parseVars, mainVars, histVars, triageVars, batchVars, readerVars, engVars>>

NoURL == <<>>   \* Python None / "" where a URL is expected

(***************************************************************************)
(* URLs.  A URL is a sequence of tokens: the host, then path segments,     *)
(* extensions and the query mark.  ATTACHMENT_URL_PATTERN is searched in   *)
(* the whole string: a directory alternative matches wherever its segment  *)
(* occurs, an extension alternative only at the end or before "?".         *)
(***************************************************************************)
ATTACHMENT_DIRS == {"/attachment", "/attachments", "/upload", "/uploads", "/files", "/download"}

ATTACHMENT_EXTS == {".zip", ".7z", ".rar", ".exe", ".iso", ".apk", ".jar", ".bat", ".ps1",
                    ".dll", ".scr", ".docm", ".xlsm", ".pdf", ".gz", ".bz2", ".xz"}

\* `url or ""`: None and "" have no token and match nothing.
is_attachment_url(url) ==
    \E i \in 1..Len(url) :
          \/ url[i] \in ATTACHMENT_DIRS
          \/ url[i] \in ATTACHMENT_EXTS /\ (i = Len(url) \/ url[i+1] = "?")

U_list1   == <<"h1", "/forum", "?", "page=1">>
U_list2   == <<"h1", "/forum", "?", "page=2">>
U_listB   == <<"h1", "/board">>
U_thread1 == <<"h1", "/thread-1">>
U_thread2 == <<"h1", "/thread-2">>
U_dl      == <<"h1", "/download", "/7">>
U_zip     == <<"h2", "/leak", ".zip">>
U_exeq    == <<"h1", "/tool", ".exe", "?", "v=2">>
U_zipview == <<"h1", "/leak", ".zip", "/view">>

urlparse_netloc(url) == IF url = NoURL THEN "" ELSE url[1]


(***************************************************************************)
(* The fetch engines.                                                      *)
(***************************************************************************)
MaxBytes == 2        \* max_bytes of fetch_html, scaled to the model's body sizes
MaxChain == 6        \* longest redirect chain the model's server answers with
REDIRECT_DEPTH == 5  \* `for _ in range(5):  # redirect depth`

HTML_CT_ALLOWED == {"text/html", "application/xhtml+xml"}

\* The URLs a server may name in a Location header (already resolved by urljoin)
\* and the URLs fetch_html may be called with.
FetchURLs == {U_list1, U_zipview, U_dl, U_zip, U_exeq}

\* Header values as sent.  Content-Length: -1 the header is absent, -2 it is present
\* but not all digits, n >= 0 the declared length.
CD_VALUES == {"", "inline", "Attachment; filename=a.zip"}
CT_VALUES == {"", "Text/HTML; charset=utf-8", "application/xhtml+xml", "application/zip"}
CL_VALUES == {-2, -1} \cup (0..(MaxBytes + 1))
ChunkSizes == {0, 1, MaxBytes}
ChunkSeqs == {<<>>} \cup [1..1 -> ChunkSizes] \cup [1..2 -> ChunkSizes]

NoResp == [cd |-> "-", ct |-> "-", cl |-> -1, chunks |-> <<>>]
FinalResponses == [cd : CD_VALUES, ct : CT_VALUES, cl : CL_VALUES, chunks : ChunkSeqs]

\* (r.headers.get("Content-Disposition") or "").lower() contains "attachment"
cd_suggests_attachment(cd) == cd \in {"Attachment; filename=a.zip"}

\* (r.headers.get("Content-Type") or "").split(";")[0].strip().lower()
content_type_of(ct) ==
    CASE ct = "Text/HTML; charset=utf-8" -> "text/html"
      [] OTHER -> ct

\* (mutant) the declared length is not looked at.
declared_too_large_ignored(cl, max_bytes) == FALSE

\* cl and cl.isdigit() and int(cl) > max_bytes
declared_too_large(cl, max_bytes) == cl >= 0 /\ cl > max_bytes

\* The streaming loop: the running total after each non-empty chunk, raising as soon
\* as it exceeds max_bytes.  The result is the total read, or -1 when it raised.
RECURSIVE iter_content(_, _, _)
iter_content(chunks, total, max_bytes) ==
    IF chunks = <<>> THEN total
    ELSE IF Head(chunks) = 0 THEN iter_content(Tail(chunks), total, max_bytes)
    ELSE IF total + Head(chunks) > max_bytes THEN -1
    ELSE iter_content(Tail(chunks), total + Head(chunks), max_bytes)

OK(n)         == [kind |-> "html", msg |-> "", size |-> n]
FetchError(m) == [kind |-> "FetchError", msg |-> m, size |-> 0]
OtherError(m) == [kind |-> m, msg |-> "", size |-> 0]
Pending       == [kind |-> "pending", msg |-> "", size |-> 0]

\* Lines 153-177: the checks on a non-redirect response and the decoded text.
final_response_result(r, max_bytes) ==
    IF cd_suggests_attachment(r.cd) THEN FetchError("Server suggests attachment download.")
    ELSE IF content_type_of(r.ct) \notin HTML_CT_ALLOWED THEN FetchError("Non-HTML Content-Type")
    ELSE IF declared_too_large(r.cl, max_bytes) THEN FetchError("Response too large")
    ELSE IF iter_content(r.chunks, 0, max_bytes) < 0 THEN FetchError("Exceeded max_bytes")
    ELSE OK(iter_content(r.chunks, 0, max_bytes))

\* Line 139 / line 220: the check of the input URL.
input_blocked(url) == is_attachment_url(url)

\* (mutant) redirect targets are followed unchecked.
redirect_blocked_unchecked(nxt) == FALSE

\* Line 147: the check of a redirect target.
redirect_blocked(nxt) == is_attachment_url(nxt)

\* Line 142: the loop runs while iterations are left.
redirect_loop_open(n) == n < REDIRECT_DEPTH

InitFetchIdle ==
    /\ engine = "requests" /\ browser = FALSE /\ f_url = NoURL /\ f_pc = "idle"
    /\ current = NoURL /\ hops = 0 /\ chain = 0 /\ followed = 0
    /\ requested = {} /\ resp = NoResp /\ outcome = Pending

InitFetchCall ==
    /\ engine \in {"requests", "playwright"}
    /\ browser \in BOOLEAN
    /\ (engine = "requests" => browser = FALSE)
    /\ f_url \in FetchURLs
    /\ chain \in 0..MaxChain
    /\ f_pc = "call"
    /\ current = NoURL /\ hops = 0 /\ followed = 0
    /\ requested = {} /\ resp = NoResp /\ outcome = Pending

Finish(o) == f_pc' = "done" /\ outcome' = o

\* A step of the fetch engine leaves the parser's and main's variables alone.
FetchOnly ==
    UNCHANGED <<parseVars, mainVars, histVars, triageVars, batchVars, readerVars, engVars>>

\* RequestsEngine.fetch_html -> _safe_get_html, up to the loop (lines 138-141).
RequestsCall ==
    /\ f_pc = "call" /\ engine = "requests"
    /\ IF input_blocked(f_url)
       THEN /\ Finish(FetchError("Blocked attachment-like URL"))
            /\ UNCHANGED current
       ELSE /\ current' = f_url
            /\ f_pc' = "loop"
            /\ UNCHANGED outcome
    /\ UNCHANGED <<engine, browser, f_url, hops, chain, followed, requested, resp>>
    /\ FetchOnly

\* One iteration of the redirect loop whose response is a redirect (lines 142-151),
\* with the raise that follows the loop when this was its last iteration (line 180).
RequestsRedirect ==
    /\ f_pc = "loop" /\ redirect_loop_open(hops)
    /\ followed < chain
    /\ \E nxt \in FetchURLs :
          /\ requested' = requested \cup {current}
          /\ hops' = hops + 1
          /\ followed' = followed + 1
          /\ IF redirect_blocked(nxt)
             THEN /\ Finish(FetchError("Redirected to blocked URL"))
                  /\ UNCHANGED current
             ELSE /\ current' = nxt
                  /\ IF redirect_loop_open(hops + 1)
                     THEN UNCHANGED <<f_pc, outcome>>
                     ELSE Finish(FetchError("Too many redirects"))
    /\ UNCHANGED <<engine, browser, f_url, chain, resp>>
    /\ FetchOnly

\* One iteration whose response is not a redirect (lines 153-179).
RequestsFinal ==
    /\ f_pc = "loop" /\ redirect_loop_open(hops)
    /\ followed = chain
    /\ \E r \in FinalResponses :
          /\ requested' = requested \cup {current}
          /\ hops' = hops + 1
          /\ resp' = r
          /\ Finish(final_response_result(r, MaxBytes))
    /\ UNCHANGED <<engine, browser, f_url, current, chain, followed>>
    /\ FetchOnly

\* session.get raises (connection refused, timeout, retries exhausted): the
\* exception leaves _safe_get_html as it is.
RequestsTransportFailure ==
    /\ f_pc = "loop" /\ redirect_loop_open(hops)
    /\ requested' = requested \cup {current}
    /\ hops' = hops + 1
    /\ Finish(OtherError("RequestException"))
    /\ UNCHANGED <<engine, browser, f_url, current, chain, followed, resp>>
    /\ FetchOnly

\* PlaywrightEngine.fetch_html (lines 219-240).  The rendered document has n bytes.
PlaywrightFetch ==
    /\ f_pc = "call" /\ engine = "playwright"
    /\ IF input_blocked(f_url)
       THEN Finish(FetchError("Blocked attachment-like URL")) /\ UNCHANGED requested
       ELSE IF ~browser
       THEN Finish(OtherError("RuntimeError")) /\ UNCHANGED requested
       ELSE /\ requested' = requested \cup {f_url}
            /\ \/ \E n \in 0..(MaxBytes + 1) :
                     Finish(IF n > MaxBytes THEN FetchError("Exceeded max_bytes") ELSE OK(n))
               \/ Finish(OtherError("PlaywrightError"))
    /\ UNCHANGED <<engine, browser, f_url, current, hops, chain, followed, resp>>
    /\ FetchOnly

NextFetch ==
    \/ RequestsCall
    \/ RequestsRedirect
    \/ RequestsFinal
    \/ RequestsTransportFailure
    \/ PlaywrightFetch


(***************************************************************************)
(* The structural parser.  A node of the parsed document is a function     *)
(* from CSS selectors to the elements node.select(css) returns; an element *)
(* carries its text, some attributes and its own select function.  Text is *)
(* a sequence of characters.  An optional value (Python None) is a         *)
(* sequence of length 0 or 1.                                              *)
(***************************************************************************)
MaxPosts == 2       \* post containers in a document of the model
HASH_PREFIX == 3    \* the [:5000] of thread_hash, scaled to the model's text lengths

Hosts == {"h1", "h2"}

\* urllib.parse.urljoin for the two shapes of href of the model: an absolute URL
\* replaces the base, a path is resolved against the base's host.
urljoin(base, href) == IF href[1] \in Hosts THEN href ELSE <<base[1]>> \o href

\* hashlib.sha256(...).hexdigest(), taken to be collision-free.
sha256(text) == <<"sha256", text>>

\* utcnow_iso() read at clock value t / a string taken from the page.
utcnow_iso(t) == [text |-> <<>>, at |-> t]
PageString(txt) == [text |-> txt, at |-> -1]

Select(node, css) == IF css \in DOMAIN node THEN node[css] ELSE <<>>

RECURSIVE FirstMatch(_, _)
FirstMatch(node, candidates) ==
    IF candidates = <<>> THEN <<>>
    ELSE IF Head(candidates) = "" THEN FirstMatch(node, Tail(candidates))
    ELSE IF Select(node, Head(candidates)) # <<>> THEN Select(node, Head(candidates))
    ELSE FirstMatch(node, Tail(candidates))

\* _pick_one(node, candidates, many=True): every element of the first candidate
\* that matches.
_pick_many(node, candidates) == FirstMatch(node, candidates)

\* _pick_one(node, candidates): the first element of the first candidate that
\* matches, or None.
_pick_one(node, candidates) ==
    IF FirstMatch(node, candidates) = <<>> THEN <<>> ELSE <<FirstMatch(node, candidates)[1]>>

\* The selector profile of a forum (the docstring's example entry).
Profile ==
    [thread_link      |-> <<"a.thread-title", "h3.title > a">>,
     next_page        |-> <<"a.next">>,
     thread_title     |-> <<"h1.thread-title", "h1.title">>,
     post_container   |-> <<"div.post", "li.comment">>,
     content          |-> <<"div.content", "div.body">>,
     author           |-> <<"span.author", "a.user">>,
     posted_time      |-> <<"time", "span.time">>,
     post_permalink   |-> <<"a.permalink">>,
     attachment_block |-> <<"div.attach", "li.attachment">>,
     attachment_name  |-> <<"span.filename", "a.file">>,
     attachment_size  |-> <<"span.size">>]

\* Lines 288-299: the attachments of one post.
parse_attachment(a, thread_url, sel) ==
    LET name_el == _pick_one(a, sel.attachment_name)
        size_el == _pick_one(a, sel.attachment_size)
        alink   == IF Select(a, "a") = <<>> THEN <<>> ELSE <<Select(a, "a")[1]>>
        att_url == IF alink # <<>> /\ alink[1].href # <<>>
                   THEN urljoin(thread_url, alink[1].href[1]) ELSE NoURL
    IN  IF att_url # NoURL /\ ~is_attachment_url(att_url)
        THEN <<[display_filename |-> IF name_el # <<>> THEN <<name_el[1].text>> ELSE <<>>,
                display_size     |-> IF size_el # <<>> THEN <<size_el[1].text>> ELSE <<>>,
                attachment_url   |-> att_url]>>
        ELSE <<>>

RECURSIVE parse_attachments(_, _, _)
parse_attachments(att_nodes, thread_url, sel) ==
    IF att_nodes = <<>> THEN <<>>
    ELSE parse_attachment(Head(att_nodes).select, thread_url, sel)
            \o parse_attachments(Tail(att_nodes), thread_url, sel)

\* Lines 277-281: the time of a post; t is what utcnow_iso() returns if it is called.
posted_at_of(node, sel, t) ==
    LET time_el == _pick_one(node, sel.posted_time)
    IN  IF time_el # <<>> /\ time_el[1].datetime # <<>> THEN PageString(time_el[1].datetime[1])
        ELSE IF time_el # <<>> THEN PageString(time_el[1].text)
        ELSE utcnow_iso(t)

reads_clock(node, sel) == _pick_one(node, sel.posted_time) = <<>>

\* Lines 270-307: one post container.
parse_post(node, thread_url, sel, t) ==
    LET content_el == _pick_one(node, sel.content)
        author_el  == _pick_one(node, sel.author)
        pl_el      == _pick_one(node, sel.post_permalink)
    IN  [post_url    |-> IF pl_el # <<>> /\ pl_el[1].href # <<>>
                         THEN urljoin(thread_url, pl_el[1].href[1]) ELSE thread_url,
         author      |-> IF author_el # <<>> THEN <<author_el[1].text>> ELSE <<>>,
         posted_at   |-> posted_at_of(node, sel, t),
         content     |-> IF content_el # <<>> THEN content_el[1].text ELSE <<>>,
         attachments |-> parse_attachments(_pick_many(node, sel.attachment_block), thread_url, sel)]

\* The loop over the post containers; now[k] is the k-th reading of the clock.
RECURSIVE parse_posts(_, _, _, _, _)
parse_posts(nodes, thread_url, sel, now, k) ==
    IF nodes = <<>> THEN <<>>
    ELSE <<parse_post(Head(nodes).select, thread_url, sel, now[k])>>
            \o parse_posts(Tail(nodes), thread_url, sel, now,
                           IF reads_clock(Head(nodes).select, sel) THEN k + 1 ELSE k)

RECURSIVE clock_reads(_, _)
clock_reads(nodes, sel) ==
    IF nodes = <<>> THEN 0
    ELSE (IF reads_clock(Head(nodes).select, sel) THEN 1 ELSE 0) + clock_reads(Tail(nodes), sel)

RECURSIVE joined_content(_)
joined_content(posts) ==
    IF posts = <<>> THEN <<>> ELSE Head(posts).content \o joined_content(Tail(posts))

Prefix(text, n) == SubSeq(text, 1, IF Len(text) < n THEN Len(text) ELSE n)

\* (mutant) the digest is taken over the posts' times as well as their content.
thread_hash_with_times(title, posts) ==
    <<"sha256",
      (IF title = <<>> THEN <<>> ELSE title[1]) \o Prefix(joined_content(posts), HASH_PREFIX),
      [i \in DOMAIN posts |-> posts[i].posted_at]>>

\* (thread_title or "") + "".join(p["content"] for p in posts)[:5000]
thread_hash_of(title, posts) ==
    sha256((IF title = <<>> THEN <<>> ELSE title[1]) \o Prefix(joined_content(posts), HASH_PREFIX))

\* _parse_thread after the fetch (lines 263-315): s is the parsed document.
_parse_thread(thread_url, sel, s, now) ==
    LET title_el == _pick_one(s, sel.thread_title)
        title    == IF title_el # <<>> THEN <<title_el[1].text>> ELSE <<>>
        nodes    == _pick_many(s, sel.post_container)
        posts    == parse_posts(nodes, thread_url, sel, now, 1)
    IN  [thread_url  |-> thread_url,
         title       |-> title,
         posts       |-> posts,
         fetched_at  |-> utcnow_iso(now[clock_reads(nodes, sel) + 1]),
         thread_hash |-> thread_hash_of(title, posts)]

\* ---- the documents of the model
El(text, datetime, href, select) ==
    [text |-> text, datetime |-> datetime, href |-> href, select |-> select]
NoSel == <<>>    \* a node in which no selector matches
Txt(text) == El(text, <<>>, <<>>, NoSel)

A_view  == El(<<"f">>, <<>>, << <<"/viewfile", "?", "id=3">> >>, NoSel)
A_zip   == El(<<"z">>, <<>>, << <<"h2", "/leak", ".zip">> >>, NoSel)
A_nohref == El(<<"n">>, <<>>, <<>>, NoSel)

Att_view == El(<<>>, <<>>, <<>>,
               ("span.filename" :> <<Txt(<<"d", "b">>)>>) @@ ("span.size" :> <<Txt(<<"9">>)>>)
                 @@ ("a" :> <<A_view, A_zip>>))
Att_zip  == El(<<>>, <<>>, <<>>, ("a.file" :> <<Txt(<<"z">>)>>) @@ ("a" :> <<A_zip>>))
Att_bare == El(<<>>, <<>>, <<>>, ("span.filename" :> <<Txt(<<"q">>)>>) @@ ("a" :> <<A_nohref>>))

T_attr == El(<<"1", "h">>, << <<"2", "0", "2", "4">> >>, <<>>, NoSel)
T_text == El(<<"1", "h">>, <<>>, <<>>, NoSel)
Link   == El(<<"#">>, <<>>, << <<"/thread-1", "?", "pid=5">> >>, NoSel)

PostEl(sel) == El(<<>>, <<>>, <<>>, sel)

P_base == PostEl(("div.content" :> <<Txt(<<"a", "b">>)>>) @@ ("span.author" :> <<Txt(<<"x">>)>>)
                   @@ ("time" :> <<T_attr>>) @@ ("a.permalink" :> <<Link>>))
P_timetext == PostEl(("div.body" :> <<Txt(<<"c">>)>>) @@ ("a.user" :> <<Txt(<<"y">>)>>)
                   @@ ("span.time" :> <<T_text>>))
P_notime == PostEl(("div.content" :> <<Txt(<<"a", "b">>)>>) @@ ("div.body" :> <<Txt(<<"c">>)>>)
                   @@ ("span.author" :> <<Txt(<<"x">>)>>))
P_empty == PostEl(NoSel)
P_att == PostEl(("div.content" :> <<Txt(<<"d">>)>>) @@ ("time" :> <<T_attr>>)
                   @@ ("div.attach" :> <<Att_view, Att_zip, Att_bare>>))
P_att2 == PostEl(("div.content" :> <<Txt(<<"d">>)>>)
                   @@ ("li.attachment" :> <<Att_zip, Att_view>>))

PostNodes == {P_base, P_timetext, P_notime, P_empty, P_att, P_att2}

PostSeqs == UNION {[1..n -> PostNodes] : n \in 0..MaxPosts}

TitleChoices == {NoSel,
                 ("h1.thread-title" :> <<Txt(<<"t">>)>>),
                 ("h1.title" :> <<Txt(<<"u">>), Txt(<<"v">>)>>),
                 ("h1.thread-title" :> <<Txt(<<"t">>)>>) @@ ("h1.title" :> <<Txt(<<"u">>)>>)}

\* A thread page: its title elements, its post containers under the first
\* candidate and one container of page chrome under the second.
ThreadDoc(title, posts) ==
    title @@ (IF posts = <<>> THEN NoSel ELSE ("div.post" :> posts)) @@ ("li.comment" :> <<P_timetext>>)

Docs == {ThreadDoc(t, ps) : t \in TitleChoices, ps \in PostSeqs}

\* The clock readings of one run: each reading is the previous one, or later.
ClockReadings(t0) ==
    {now \in [1..(MaxPosts + 1) -> t0..(t0 + MaxPosts + 1)] :
        /\ now[1] \in {t0, t0 + 1}
        /\ \A k \in 1..MaxPosts : now[k+1] \in {now[k], now[k] + 1}}

InitParse ==
    /\ p_doc \in Docs
    /\ p_url \in {U_thread1}
    /\ p_runs = <<>>
    /\ p_clock = 1

\* One call of _parse_thread on the document, the fetch having returned it.
ParseThread ==
    /\ Len(p_runs) < 2
    /\ \E now \in ClockReadings(p_clock) :
          /\ p_runs' = Append(p_runs, _parse_thread(p_url, Profile, p_doc, now))
          /\ p_clock' = now[MaxPosts + 1]
    /\ UNCHANGED <<p_doc, p_url>>
    /\ UNCHANGED <<fetchVars, mainVars, histVars, triageVars, batchVars, readerVars, engVars>>

NextParse == ParseThread

(***************************************************************************)
(* Idle values of the variables a specification does not use.              *)
(***************************************************************************)
NoDoc == NoSel
NoArgs == [forums |-> <<>>, pages |-> 0, download_attachments |-> FALSE,
           dl_max_per_thread |-> 0, dl_same_host |-> FALSE, dl_max_size |-> 0,
           out_sqlite |-> FALSE, zip_quarantine |-> FALSE, zip_password |-> <<>>]
NoPassword == <<>>
NoDb == [posts |-> <<>>, attachments |-> <<>>]
NoLink == [url |-> NoURL, what |-> "none"]
NoDl == [url |-> NoURL, saved |-> FALSE,
         ans |-> [kind |-> "none", host |-> "", ct |-> "", cl |-> -1, disp_name |-> <<>>,
                  chunks |-> <<>>, ends |-> "eof"]]

InitParseIdle ==
    /\ p_doc = NoDoc /\ p_url = NoURL /\ p_runs = <<>> /\ p_clock = 0

NoCfg == [keep_cf_strict |-> FALSE, keep_threshold |-> 0, drop_threshold |-> 0]

InitTriageIdle ==
    /\ tri_pc = "idle" /\ tlog = <<>> /\ tcfg = NoCfg /\ line_i = 0
    /\ seen_threads = {} /\ seen_posts = {} /\ out_records = <<>> /\ out_lines = <<>>
    /\ strict_records = <<>> /\ strict_lines = <<>>
    /\ relaxed_records = <<>> /\ relaxed_lines = <<>>
    /\ split_i = 0 /\ keep = <<>> /\ review = <<>> /\ drop_meta = <<>> /\ scores = <<>>

InitBatchIdle ==
    /\ b_pc = "idle" /\ MAX_PAGE = 0 /\ CHUNK = 0 /\ b_chunks = <<>> /\ chunk_i = 0
    /\ attempt = 0 /\ b_runs = <<>> /\ b_produced = <<>>

\* The alert streams of the model.
Streams == {"s1", "s2"}

ClosedStream == [pc |-> "closed", processed_ids |-> {}, items |-> <<>>, i |-> 0,
                 new_found |-> FALSE]

InitAlertIdle ==
    /\ a_raw = <<>> /\ a_file = <<>> /\ a_streams = [st \in Streams |-> ClosedStream]
    /\ a_issues = <<>> /\ a_opens = 0

InitDetectIdle ==
    /\ qd_pc = "idle" /\ qd_in = <<>> /\ qd_i = 0 /\ qd_out = <<>>

NoEngine == "none"

InitEnginesIdle ==
    /\ e_pc = "idle" /\ e_args = [engine |-> "auto", forums |-> <<>>] /\ e_conf = <<>>
    /\ _playwright_available = FALSE /\ requests_engine = FALSE /\ shared_pw = "none"
    /\ e_i = 0 /\ forum_eng = NoEngine /\ e_fetches = 0 /\ fetch_calls = {} /\ e_raised = {}

InitReadersIdle == InitAlertIdle /\ InitDetectIdle /\ InitEnginesIdle

InitOthersIdle == InitTriageIdle /\ InitBatchIdle /\ InitReadersIdle

InitMainIdle ==
    /\ m_pc = "idle" /\ args = NoArgs /\ forum_i = 0 /\ all_records = <<>>
    /\ seed_i = 0 /\ next_url = NoURL /\ page = 0 /\ link_nodes = <<>>
    /\ page_next = NoURL /\ seen_on_page = {} /\ visited_threads = {}
    /\ results = <<>> /\ jsonl = <<>>
    /\ q_rec = 0 /\ q_urls = <<>> /\ q_count = 0 /\ manifest = <<>> /\ manifests = {}
    /\ dl_requests = {} /\ quarantine = {} /\ last_dl = NoDl /\ sqlite_db = NoDb
    /\ dl_session = "none" /\ dl_open = {}
    /\ pyminizip = "none" /\ archives = {} /\ console = <<>>
    /\ ev = <<"none", "none">> /\ last_link = NoLink /\ thread_fetched = {} /\ failed = {}
    /\ produced = {} /\ aborted = {} /\ seeds_tried = {} /\ clock = 0

InitFetch == InitFetchCall /\ InitParseIdle /\ InitMainIdle /\ InitOthersIdle

SpecFetch == InitFetch /\ [][NextFetch]_vars

InitParseRun == InitParse /\ InitFetchIdle /\ InitMainIdle /\ InitOthersIdle

SpecParse == InitParseRun /\ [][NextParse]_vars

(***************************************************************************)
(* main and crawl_forum.  engine.fetch_html(url) is one step here: it      *)
(* raises, or returns a document the server chose; it always raises for a  *)
(* URL the engine blocks.                                                  *)
(***************************************************************************)
MaxPages == 2            \* --pages of the run (max_pages of crawl_forum)
MaxLinks == 2            \* link nodes on a list page of the model
DlMaxPerThread == 2      \* --dl-max-per-thread of the run
DlMaxSize == 2           \* --dl-max-size of the run, scaled to the model's body sizes

\* The configuration: every forum has the profile's selectors and its list_urls.
Conf == ("f1" :> [list_urls |-> <<U_list1, U_listB>>, sel |-> Profile])

\* --forums f0 f1: f0 is not a key of the configuration.
Forums == <<"f0", "f1">>

\* ---- the pages of the model's forums
Anchor(href) == El(<<"l">>, <<>>, href, NoSel)
LinkAnchors == {Anchor(<< <<"/thread-1">> >>), Anchor(<< <<"/thread-2">> >>),
                Anchor(<< <<"/download", "/7">> >>), Anchor(<<>>)}
LinkSeqs == UNION {[1..n -> LinkAnchors] : n \in 0..MaxLinks}
NextAnchors == {<<>>, <<Anchor(<< <<"/forum", "?", "page=2">> >>)>>}

ListDoc(links, nxt) ==
    (IF links = <<>> THEN NoSel ELSE ("h3.title > a" :> links))
      @@ (IF nxt = <<>> THEN NoSel ELSE ("a.next" :> nxt))
ListDocs == {ListDoc(l, n) : l \in LinkSeqs, n \in NextAnchors}

D_posts == ThreadDoc("h1.title" :> <<Txt(<<"u">>)>>, <<P_att, P_att2>>)
D_empty == NoSel
ThreadDocs == {D_posts, D_empty}

\* Lines 337-344: the link nodes of the first thread_link candidate that matches.
thread_link_nodes(s, sel) == FirstMatch(s, sel.thread_link)

\* (mutant) links are skipped only when already seen.
skip_link_seen_only(thread_url, seen, visited) == thread_url \in seen \/ thread_url \in visited

\* (mutant) only the links of the page at hand are remembered.
skip_link_this_page_only(thread_url, seen, visited) ==
    thread_url \in seen \/ is_attachment_url(thread_url)

\* Lines 352-355: the two `continue` tests on a resolved link.
skip_link(thread_url, seen, visited) ==
    \/ thread_url \in seen \/ thread_url \in visited
    \/ is_attachment_url(thread_url)

\* (mutant) an exception of _parse_thread leaves crawl_forum.
on_thread_error_raise == "raise"

\* Lines 359-363: an exception of _parse_thread is caught and logged.
on_thread_error == "continue"

\* (mutant) the quarantine pass runs whatever the command line says.
quarantine_enabled_always(a) == TRUE

\* Line 601: the quarantine pass is entered only with --download-attachments.
quarantine_enabled(a) == a.download_attachments

\* (mutant) the while loop tests next_url only, not the page count.
RECURSIVE loop_position_no_cap(_, _, _, _, _)
loop_position_no_cap(list_urls, i, nurl, pg, max_pages) ==
    IF i <= Len(list_urls) /\ nurl # NoURL
    THEN [pc |-> "list", seed_i |-> i, next_url |-> nurl, page |-> pg]
    ELSE IF i < Len(list_urls)
    THEN loop_position_no_cap(list_urls, i + 1, list_urls[i + 1], 1, max_pages)
    ELSE [pc |-> "return", seed_i |-> i, next_url |-> NoURL, page |-> pg]

\* Lines 330-332: where the two loops of crawl_forum stand with start_url number i,
\* next_url nurl and page pg: in the body of the while loop, or past the for loop.
RECURSIVE loop_position(_, _, _, _, _)
loop_position(list_urls, i, nurl, pg, max_pages) ==
    IF i <= Len(list_urls) /\ nurl # NoURL /\ pg <= max_pages
    THEN [pc |-> "list", seed_i |-> i, next_url |-> nurl, page |-> pg]
    ELSE IF i < Len(list_urls)
    THEN loop_position(list_urls, i + 1, list_urls[i + 1], 1, max_pages)
    ELSE [pc |-> "return", seed_i |-> i, next_url |-> NoURL, page |-> pg]

\* The start_urls the for loop passes on the way from seed i to position pos.
seeds_entered(key, list_urls, i, pos) ==
    {<<key, list_urls[j]>> : j \in {j \in 1..Len(list_urls) :
         j > i /\ (j < pos.seed_i \/ (j = pos.seed_i /\ pos.pc = "list"))}}

CurrentKey == args.forums[forum_i]

InitMain ==
    /\ m_pc = "forums"
    /\ args \in [forums : {Forums}, pages : {MaxPages}, download_attachments : BOOLEAN,
                 dl_max_per_thread : {DlMaxPerThread}, dl_same_host : {FALSE},
                 dl_max_size : {DlMaxSize}, out_sqlite : BOOLEAN,
                 zip_quarantine : {FALSE}, zip_password : {NoPassword}]
    /\ forum_i = 0 /\ all_records = <<>>
    /\ seed_i = 0 /\ next_url = NoURL /\ page = 0 /\ link_nodes = <<>>
    /\ page_next = <<>> /\ seen_on_page = {} /\ visited_threads = {}
    /\ results = <<>> /\ jsonl = <<>>
    /\ q_rec = 0 /\ q_urls = <<>> /\ q_count = 0 /\ manifest = <<>> /\ manifests = {}
    /\ dl_requests = {} /\ quarantine = {} /\ last_dl = NoDl /\ sqlite_db = NoDb
    /\ dl_session = "none" /\ dl_open = {}
    /\ pyminizip = "none" /\ archives = {} /\ console = <<>>
    /\ ev = <<"none", "none">> /\ last_link = NoLink /\ thread_fetched = {} /\ failed = {}
    /\ produced = {} /\ aborted = {} /\ seeds_tried = {} /\ clock = 1

OthersIdle == UNCHANGED <<fetchVars, parseVars, triageVars, batchVars, readerVars, engVars>>
\* Every step of main but save_sqlite and the archiving leaves the mirror and the
\* archives alone.
MainOnly == OthersIdle /\ UNCHANGED <<sqlite_db, zipVars>>
QuarantineIdle ==
    UNCHANGED <<q_rec, q_urls, q_count, manifest, manifests, dl_requests, last_dl, quarantine,
                dl_session, dl_open>>

\* crawl_forum moves to loop position pos; when it is past the for loop it returns
\* res and main extends all_records with it (lines 371, 582-583).
GoTo(pos, res) ==
    /\ seed_i' = pos.seed_i /\ next_url' = pos.next_url /\ page' = pos.page
    /\ IF pos.pc = "list"
       THEN /\ m_pc' = "list"
            /\ results' = res
            /\ UNCHANGED all_records
       ELSE /\ m_pc' = "forums"
            /\ results' = <<>>
            /\ all_records' = all_records \o res

\* crawl_forum is left by an exception; main logs it and takes the next forum
\* (lines 584-585).  The results of the call are dropped with its frame.
Raise ==
    /\ m_pc' = "forums"
    /\ aborted' = aborted \cup {CurrentKey}
    /\ results' = <<>>
    /\ UNCHANGED <<all_records, seed_i, next_url, page>>

\* main's loop over args.forums, up to the first fetch of crawl_forum
\* (lines 575-583, 319-332).
ForumStart ==
    /\ m_pc = "forums" /\ forum_i < Len(args.forums)
    /\ forum_i' = forum_i + 1
    /\ LET key == args.forums[forum_i + 1] IN
       IF key \notin DOMAIN Conf
       THEN UNCHANGED <<m_pc, all_records, seed_i, next_url, page, results, visited_threads,
                        ev, failed, seeds_tried>>
       ELSE LET lu  == Conf[key].list_urls
                pos == loop_position(lu, 0, NoURL, 1, args.pages)
            IN  /\ GoTo(pos, <<>>)
                /\ visited_threads' = {}
                /\ failed' = {}
                /\ ev' = <<"none", "none">>
                /\ seeds_tried' = seeds_tried \cup seeds_entered(key, lu, 0, pos)
    /\ UNCHANGED <<args, link_nodes, page_next, seen_on_page, jsonl, last_link,
                   thread_fetched, produced, aborted, clock>>
    /\ QuarantineIdle /\ MainOnly

\* Lines 333-346: the fetch of a list page and the selection of its link nodes.
ListFetch ==
    /\ m_pc = "list"
    /\ ev' = <<ev[2], "fetch">>
    /\ \/ /\ Raise
          /\ UNCHANGED <<link_nodes, page_next, seen_on_page>>
       \/ /\ ~input_blocked(next_url)
          /\ \E s \in ListDocs :
                /\ link_nodes' = thread_link_nodes(s, Conf[CurrentKey].sel)
                /\ page_next' = _pick_one(s, Conf[CurrentKey].sel.next_page)
          /\ seen_on_page' = {}
          /\ m_pc' = "links"
          /\ UNCHANGED <<all_records, seed_i, next_url, page, results, aborted>>
    /\ UNCHANGED <<args, forum_i, visited_threads, jsonl, last_link, thread_fetched,
                   failed, produced, seeds_tried, clock>>
    /\ QuarantineIdle /\ MainOnly

\* Lines 347-363: one iteration of the loop over link_nodes, up to human_sleep.
LinkStep ==
    /\ m_pc = "links" /\ link_nodes # <<>>
    /\ link_nodes' = Tail(link_nodes)
    /\ LET a == Head(link_nodes)
           thread_url == IF a.href = <<>> THEN NoURL ELSE urljoin(next_url, a.href[1])
       IN
       IF a.href = <<>>
       THEN /\ last_link' = [url |-> NoURL, what |-> "no href"]
            /\ UNCHANGED <<m_pc, seen_on_page, visited_threads, results, thread_fetched,
                           failed, produced, aborted, ev, clock, all_records, seed_i,
                           next_url, page>>
       ELSE IF skip_link(thread_url, seen_on_page, visited_threads)
       THEN /\ last_link' = [url |-> thread_url, what |-> "skipped"]
            /\ UNCHANGED <<m_pc, seen_on_page, visited_threads, results, thread_fetched,
                           failed, produced, aborted, ev, clock, all_records, seed_i,
                           next_url, page>>
       ELSE /\ seen_on_page' = seen_on_page \cup {thread_url}
            /\ visited_threads' = visited_threads \cup {thread_url}
            /\ thread_fetched' = thread_fetched \cup {thread_url}
            /\ ev' = <<ev[2], "fetch">>
            /\ \/ /\ last_link' = [url |-> thread_url, what |-> "failed"]
                  /\ failed' = failed \cup {thread_url}
                  /\ IF on_thread_error = "continue"
                     THEN /\ m_pc' = "thread_sleep"
                          /\ UNCHANGED <<results, all_records, seed_i, next_url, page, aborted>>
                     ELSE Raise
                  /\ UNCHANGED <<produced, clock>>
               \/ /\ ~input_blocked(thread_url)
                  /\ \E s \in ThreadDocs :
                        LET data == _parse_thread(thread_url, Conf[CurrentKey].sel, s,
                                                  [k \in 1..(MaxPosts + 1) |-> clock])
                            rec  == [source |-> CurrentKey] @@ data
                        IN  /\ results' = Append(results, rec)
                            /\ produced' = produced \cup {rec}
                  /\ last_link' = [url |-> thread_url, what |-> "parsed"]
                  /\ clock' = clock + 1
                  /\ m_pc' = "thread_sleep"
                  /\ UNCHANGED <<failed, all_records, seed_i, next_url, page, aborted>>
    /\ UNCHANGED <<args, forum_i, page_next, jsonl, seeds_tried>>
    /\ QuarantineIdle /\ MainOnly

\* Line 365: engine.human_sleep after a thread.
ThreadSleep ==
    /\ m_pc = "thread_sleep"
    /\ ev' = <<ev[2], "sleep">>
    /\ m_pc' = "links"
    /\ UNCHANGED <<args, forum_i, all_records, seed_i, next_url, page, link_nodes, page_next,
                   seen_on_page, visited_threads, results, jsonl, last_link, thread_fetched,
                   failed, produced, aborted, seeds_tried, clock>>
    /\ QuarantineIdle /\ MainOnly

\* Lines 367-370 and the loop tests that follow: the next page, or the next
\* start_url, or the return of crawl_forum.
PageEnd ==
    /\ m_pc = "links" /\ link_nodes = <<>>
    /\ ev' = <<ev[2], "sleep">>
    /\ LET lu   == Conf[CurrentKey].list_urls
           nurl == IF page_next # <<>> /\ page_next[1].href # <<>>
                   THEN urljoin(next_url, page_next[1].href[1]) ELSE NoURL
           pos  == loop_position(lu, seed_i, nurl, page + 1, args.pages)
       IN  /\ GoTo(pos, results)
           /\ seeds_tried' = seeds_tried \cup seeds_entered(CurrentKey, lu, seed_i, pos)
    /\ UNCHANGED <<args, forum_i, link_nodes, page_next, seen_on_page, visited_threads,
                   jsonl, last_link, thread_fetched, failed, produced, aborted, clock>>
    /\ QuarantineIdle /\ MainOnly

\* Lines 587-594: after the last forum, save_jsonl writes all_records, unless
\* there is none.
Save ==
    /\ m_pc = "forums" /\ forum_i = Len(args.forums)
    /\ IF all_records = <<>>
       THEN m_pc' = "done" /\ UNCHANGED jsonl
       ELSE m_pc' = "saved" /\ jsonl' = all_records
    /\ UNCHANGED <<args, forum_i, all_records, seed_i, next_url, page, link_nodes, page_next,
                   seen_on_page, visited_threads, results>>
    /\ UNCHANGED histVars
    /\ QuarantineIdle /\ MainOnly

\* The attachment URLs of a record (lines 610-614).
RECURSIVE att_urls_of_posts(_)
att_urls_of_posts(posts) ==
    IF posts = <<>> THEN <<>>
    ELSE [i \in DOMAIN Head(posts).attachments |-> Head(posts).attachments[i].attachment_url]
            \o att_urls_of_posts(Tail(posts))

(***************************************************************************)
(* The quarantine downloader.  A file name is a sequence of characters, a  *)
(* body a sequence of chunks, a chunk a sequence of bytes.  The quarantine *)
(* directory is a set of files [path, content, host]: path is <<source     *)
(* folder, thread folder, name>> and host (not on disk) is the host that   *)
(* sent the content.                                                       *)
(***************************************************************************)
SAFE_TEXT_CT == {"text/html", "application/xhtml+xml", "text/plain", "text/markdown"}

\* The characters [A-Za-z0-9._-] of the model's names; every other one (the
\* model has " " and "/") is replaced by _name_sanitize.
NameSafeChars == {"a", "b", "f", "g", "p", "q", "r", "t", "v", "1", "2", "7", ".", "_", "-"}

DotPart == <<".", "p", "a", "r", "t">>
DotQuarantine == <<".", "q">>          \* ".quarantine"
FileBin == <<"f", ".", "b">>           \* "file.bin"

RECURSIVE lstrip(_)
lstrip(name) == IF name # <<>> /\ Head(name) = " " THEN lstrip(Tail(name)) ELSE name

RECURSIVE rstrip(_)
rstrip(name) ==
    IF name # <<>> /\ name[Len(name)] = " " THEN rstrip(SubSeq(name, 1, Len(name) - 1)) ELSE name

\* _name_sanitize.sub("_", name): every run of unsafe characters becomes one "_".
RECURSIVE name_sanitize_sub(_, _)
name_sanitize_sub(name, in_run) ==
    IF name = <<>> THEN <<>>
    ELSE IF Head(name) \in NameSafeChars
    THEN <<Head(name)>> \o name_sanitize_sub(Tail(name), FALSE)
    ELSE (IF in_run THEN <<>> ELSE <<"_">>) \o name_sanitize_sub(Tail(name), TRUE)

\* Lines 675-681, for names of at most 120 characters (every name of the model).
sanitize_filename(name, fallback) ==
    LET stripped == rstrip(lstrip(name))
    IN  name_sanitize_sub(IF stripped = <<>> THEN fallback ELSE stripped, FALSE)

\* sanitize_filename(rec.get("source", "unknown"), "src") on a forum key: the keys
\* of the model consist of safe characters.
sanitize_source(key) == key

\* The text of a path segment of the model's URLs, without its slash.
SegmentText == ("/viewfile" :> <<"v">>) @@ ("/get" :> <<"g">>) @@ ("/7" :> <<"7">>)
                 @@ ("/thread-1" :> <<"1">>) @@ ("/thread-2" :> <<"2">>)

\* urlparse(url).path as its segments: what stands between the host and the "?".
RECURSIVE url_path(_)
url_path(rest) ==
    IF rest = <<>> \/ Head(rest) = "?" THEN <<>> ELSE <<Head(rest)>> \o url_path(Tail(rest))

\* unquote(os.path.basename(pu.path.rstrip("/")) or "file.bin"), lines 729-730.
base_from_url(url) ==
    LET path == url_path(Tail(url))
    IN  IF path = <<>> \/ path[Len(path)] \notin DOMAIN SegmentText THEN FileBin
        ELSE SegmentText[path[Len(path)]]

\* Lines 624-626: the host downloads are restricted to; "" without --dl-same-host.
same_host_of(a, rec) == IF a.dl_same_host THEN urlparse_netloc(rec.thread_url) ELSE ""

\* Line 702: the test that skips a URL of another host before any request.
cross_host_blocked(url, same_host) ==
    same_host # "" /\ urlparse_netloc(url) # "" /\ urlparse_netloc(url) # same_host

\* (mutant) the running total is never compared with max_bytes.
exceeds_never(downloaded, max_bytes) == FALSE

\* Line 744: `if downloaded > max_bytes`.
exceeds(downloaded, max_bytes) == downloaded > max_bytes

\* Lines 738-750: the loop over r.iter_content(8192).  written is what f.write has
\* put in the .part file, hashed what sha.update has taken.
RECURSIVE stream_body(_, _, _, _)
stream_body(chunks, written, hashed, max_bytes) ==
    IF chunks = <<>> THEN [aborted |-> FALSE, written |-> written, hashed |-> hashed]
    ELSE IF Head(chunks) = <<>> THEN stream_body(Tail(chunks), written, hashed, max_bytes)
    ELSE IF exceeds(Len(written) + Len(Head(chunks)), max_bytes)
    THEN [aborted |-> TRUE, written |-> written, hashed |-> hashed]
    ELSE stream_body(Tail(chunks), written \o Head(chunks), hashed \o Head(chunks), max_bytes)

\* (mutant) the file keeps the name it was sent under.
final_name_as_sent(fname) == fname

\* Line 735: final_name = fname + ".quarantine".
final_name_of(fname) == fname \o DotQuarantine

RemoveFile(fs, path) == {f \in fs : f.path # path}
WriteFile(fs, path, content, host) ==
    RemoveFile(fs, path) \cup {[path |-> path, content |-> content, host |-> host]}

\* What a server answers to the GET of stream_download, redirects followed
\* (allow_redirects=True): host is the host that sent the final response, cl is
\* Content-Length (-1 absent, -2 not a number), disp_name the file name found in
\* Content-Disposition, ends tells whether the body ends or the connection breaks.
\* kind "raise": session.get raises.
DlResponse(kind, host, ct, cl, disp_name, chunks, ends) ==
    [kind |-> kind, host |-> host, ct |-> ct, cl |-> cl, disp_name |-> disp_name,
     chunks |-> chunks, ends |-> ends]
DlRaise == DlResponse("raise", "", "", -1, <<>>, <<>>, "eof")

\* stream_download (lines 697-763) on the answer ans, the quarantine directory
\* being fs: whether the URL was requested, the meta returned (None is <<>>),
\* the directory afterwards, whether session.get returned a response (opened)
\* and whether r.close() was called on it (closed: lines 712, 715, 745, 751; the
\* except branch of lines 761-763 calls nothing).
stream_download(url, ans, dst_dir, max_bytes, same_host, fs) ==
    LET None(req, fs2, got, shut) ==
            [requested |-> req, meta |-> <<>>, fs |-> fs2, opened |-> got, closed |-> shut]
        fname == sanitize_filename(IF ans.disp_name # <<>> THEN ans.disp_name[1]
                                   ELSE base_from_url(url), FileBin)
        tmp_path   == <<dst_dir[1], dst_dir[2], fname \o DotPart>>
        final_path == <<dst_dir[1], dst_dir[2], final_name_of(fname)>>
        body == stream_body(ans.chunks, <<>>, <<>>, max_bytes)
    IN  IF cross_host_blocked(url, same_host) THEN None(FALSE, fs, FALSE, FALSE)
        ELSE IF ans.kind = "raise" THEN None(TRUE, fs, FALSE, FALSE)
        ELSE IF ans.ct \in SAFE_TEXT_CT THEN None(TRUE, fs, TRUE, TRUE)
        ELSE IF ans.cl >= 0 /\ ans.cl > max_bytes THEN None(TRUE, fs, TRUE, TRUE)
        ELSE IF body.aborted THEN None(TRUE, RemoveFile(fs, tmp_path), TRUE, TRUE)
        ELSE IF ans.ends = "error"
        THEN None(TRUE, WriteFile(fs, tmp_path, body.written, ans.host), TRUE, FALSE)
        ELSE [requested |-> TRUE,
              meta |-> <<[url |-> url, saved_as |-> final_path,
                          sha256 |-> sha256(body.hashed), size |-> Len(body.written),
                          content_type |-> ans.ct]>>,
              fs |-> WriteFile(RemoveFile(fs, tmp_path), final_path, body.written, ans.host),
              opened |-> TRUE, closed |-> TRUE]

\* ---- the servers of the model
U_att3  == <<"h1", "/viewfile", "?", "id=3">>
U_att4  == <<"h1", "/viewfile", "?", "id=4">>
U_cross == <<"h2", "/get", "?", "id=5">>

Bytes(n, b) == [i \in 1..n |-> b]

DlWeb(url) ==
    IF url = U_att3
    THEN {DlResponse("response", "h1", "application/zip", -1, <<>>, <<Bytes(1, "x")>>, "eof"),
          DlRaise}
    ELSE IF url = U_att4
    THEN {DlResponse("response", "h1", "application/zip", DlMaxSize, <<>>,
                     <<Bytes(DlMaxSize, "y")>>, "eof"),
          DlResponse("response", "h1", "application/zip", -1, <<>>,
                     <<Bytes(DlMaxSize, "y"), <<>>, Bytes(1, "y")>>, "eof"),
          DlResponse("response", "h1", "application/octet-stream", DlMaxSize + 1, <<>>,
                     <<Bytes(1, "y")>>, "eof"),
          DlResponse("response", "h1", "text/html", -1, <<>>, <<Bytes(1, "y")>>, "eof"),
          DlResponse("response", "h1", "", -2, << <<" ", "r", "/", "/", "7">> >>,
                     <<Bytes(1, "z"), Bytes(1, "y")>>, "eof"),
          DlResponse("response", "h1", "application/zip", 1, <<>>, <<Bytes(1, "y")>>, "error"),
          DlResponse("response", "h2", "application/zip", -1, <<>>, <<Bytes(1, "w")>>, "eof")}
    ELSE {DlResponse("response", "h2", "application/zip", -1, <<>>, <<Bytes(1, "c")>>, "eof"),
          DlRaise}

\* Lines 600-605: the test of --download-attachments and the session of the pass,
\* which make_requests_session_for_dl (lines 684-694) opens.
\* make_requests_session_for_dl is defined at line 684, after the call of main at
\* line 651: it is bound when main is called from an importing module and unbound
\* (NameError) when the file runs as a script.
QuarantineStart ==
    /\ m_pc = "mirrored" \/ (m_pc = "saved" /\ ~args.out_sqlite)
    /\ IF ~quarantine_enabled(args) THEN m_pc' = "done"
       ELSE m_pc' \in {"quarantine", "NameError"}
    /\ dl_session' = IF m_pc' = "quarantine" THEN "open" ELSE dl_session
    /\ UNCHANGED <<args, forum_i, all_records, seed_i, next_url, page, link_nodes, page_next,
                   seen_on_page, visited_threads, results, jsonl>>
    /\ UNCHANGED <<q_rec, q_urls, q_count, manifest, manifests, dl_requests, last_dl,
                   quarantine, dl_open>>
    /\ UNCHANGED histVars
    /\ MainOnly

\* Lines 608-629: the next record of the pass and its att_urls.
QuarantineRecord ==
    /\ m_pc = "quarantine"
    /\ IF q_rec = Len(all_records)
       THEN m_pc' = "done" /\ UNCHANGED <<q_rec, q_urls>>
       ELSE /\ q_rec' = q_rec + 1
            /\ q_urls' = att_urls_of_posts(all_records[q_rec + 1].posts)
            /\ m_pc' = IF q_urls' = <<>> THEN "quarantine" ELSE "downloads"
    /\ q_count' = 0 /\ manifest' = <<>>
    /\ UNCHANGED <<args, forum_i, all_records, seed_i, next_url, page, link_nodes, page_next,
                   seen_on_page, visited_threads, results, jsonl, manifests, dl_requests, last_dl,
                   quarantine, dl_session, dl_open>>
    /\ UNCHANGED histVars
    /\ MainOnly

\* Lines 630-636: one iteration of the loop over att_urls: stream_download on the
\* next URL against what the server answers; a returned meta is appended to the
\* manifest and counted.
QuarantineDownload ==
    /\ m_pc = "downloads" /\ q_urls # <<>> /\ q_count < args.dl_max_per_thread
    /\ q_urls' = Tail(q_urls)
    /\ LET rec  == all_records[q_rec]
           url  == Head(q_urls)
           tdir == <<sanitize_source(rec.source), rec.thread_hash>>
       IN  \E ans \in DlWeb(url) :
              LET out == stream_download(url, ans, tdir, args.dl_max_size,
                                         same_host_of(args, rec), quarantine)
              IN  /\ dl_requests' = IF out.requested THEN dl_requests \cup {url} ELSE dl_requests
                  /\ quarantine' = out.fs
                  /\ last_dl' = [url |-> url, saved |-> out.meta # <<>>, ans |-> ans]
                  /\ manifest' = manifest \o out.meta
                  /\ q_count' = q_count + Len(out.meta)
                  /\ dl_open' = IF out.opened /\ ~out.closed THEN dl_open \cup {url}
                                ELSE dl_open
    /\ UNCHANGED <<m_pc, args, forum_i, all_records, seed_i, next_url, page, link_nodes,
                   page_next, seen_on_page, visited_threads, results, jsonl, q_rec, manifests,
                   dl_session>>
    /\ UNCHANGED histVars
    /\ MainOnly

\* Lines 631-639: the loop ends, or breaks at the cap, and manifest.json is written.
QuarantineManifest ==
    /\ m_pc = "downloads" /\ (q_urls = <<>> \/ q_count >= args.dl_max_per_thread)
    /\ LET rec  == all_records[q_rec]
           tdir == <<sanitize_source(rec.source), rec.thread_hash>>
       IN  manifests' = {m \in manifests : m.dir # tdir}
                          \cup {[dir |-> tdir, thread_url |-> rec.thread_url,
                                 downloaded |-> manifest]}
    /\ m_pc' = IF args.zip_quarantine THEN "zip" ELSE "quarantine"
    /\ UNCHANGED <<args, forum_i, all_records, seed_i, next_url, page, link_nodes, page_next,
                   seen_on_page, visited_threads, results, jsonl, q_rec, q_urls, q_count,
                   manifest, dl_requests, last_dl, quarantine, dl_session, dl_open>>
    /\ UNCHANGED histVars
    /\ MainOnly

Next ==
    \/ ForumStart
    \/ ListFetch
    \/ LinkStep
    \/ ThreadSleep
    \/ PageEnd
    \/ Save
    \/ QuarantineStart
    \/ QuarantineRecord
    \/ QuarantineDownload
    \/ QuarantineManifest

\* A run without --out-sqlite (its default, line 499).
Init == InitMain /\ ~args.out_sqlite /\ InitFetchIdle /\ InitParseIdle /\ InitOthersIdle

Spec == Init /\ [][Next]_vars

(***************************************************************************)
(* The quarantine pass on its own: main has saved all_records, parsed from *)
(* threads whose posts carry up to DlMaxPerThread + 1 attachment links,    *)
(* and --dl-same-host is on or off.                                        *)
(***************************************************************************)
QAttHrefs == {<<"/viewfile", "?", "id=3">>, <<"/viewfile", "?", "id=4">>,
              <<"h2", "/get", "?", "id=5">>}
QAttSeqs == UNION {[1..n -> QAttHrefs] : n \in 0..(DlMaxPerThread + 1)}

QAtt(href) == El(<<>>, <<>>, <<>>, ("a" :> <<El(<<"f">>, <<>>, <<href>>, NoSel)>>))
QDoc(hrefs) ==
    ThreadDoc("h1.title" :> <<Txt(<<"t">>)>>,
              <<PostEl(("div.content" :> <<Txt(<<"q">>)>>) @@ ("time" :> <<T_attr>>)
                         @@ (IF hrefs = <<>> THEN NoSel
                             ELSE ("div.attach" :> [i \in DOMAIN hrefs |-> QAtt(hrefs[i])])))>>)

QRecord(key, thread_url, s, t) ==
    [source |-> key] @@ _parse_thread(thread_url, Conf[key].sel, s, [k \in 1..(MaxPosts + 1) |-> t])

InitQuarantine ==
    /\ m_pc = "saved"
    /\ args \in [forums : {Forums}, pages : {MaxPages}, download_attachments : {TRUE},
                 dl_max_per_thread : {DlMaxPerThread}, dl_same_host : BOOLEAN,
                 dl_max_size : {DlMaxSize}, out_sqlite : {FALSE},
                 zip_quarantine : BOOLEAN, zip_password : {NoPassword, <<"pw">>}]
    /\ forum_i = Len(Forums)
    /\ \E hrefs \in QAttSeqs :
          all_records = <<QRecord("f1", U_thread1, QDoc(hrefs), 1),
                          QRecord("f1", U_thread2, D_posts, 2)>>
    /\ jsonl = all_records
    /\ seed_i = 2 /\ next_url = NoURL /\ page = 2 /\ link_nodes = <<>>
    /\ page_next = <<>> /\ seen_on_page = {} /\ visited_threads = {U_thread1, U_thread2}
    /\ results = <<>>
    /\ q_rec = 0 /\ q_urls = <<>> /\ q_count = 0 /\ manifest = <<>> /\ manifests = {}
    /\ dl_requests = {} /\ quarantine = {} /\ last_dl = NoDl /\ sqlite_db = NoDb
    /\ dl_session = "none" /\ dl_open = {}
    /\ pyminizip \in {"none", "module"} /\ archives = {} /\ console = <<>>
    /\ ev = <<"sleep", "sleep">> /\ last_link = [url |-> U_thread2, what |-> "parsed"]
    /\ thread_fetched = {U_thread1, U_thread2} /\ failed = {}
    /\ produced = {all_records[i] : i \in DOMAIN all_records}
    /\ aborted = {} /\ seeds_tried = {<<"f1", U_list1>>, <<"f1", U_listB>>} /\ clock = 3

\* A pass without --zip-quarantine (its default, line 512).
InitQuarantineRun ==
    /\ InitQuarantine /\ ~args.zip_quarantine /\ args.zip_password = NoPassword
    /\ pyminizip = "none"
    /\ InitFetchIdle /\ InitParseIdle /\ InitOthersIdle

NextQuarantine ==
    \/ QuarantineStart
    \/ QuarantineRecord
    \/ QuarantineDownload
    \/ QuarantineManifest

SpecQuarantine == InitQuarantineRun /\ [][NextQuarantine]_vars

(***************************************************************************)
(* Claims about the fetch engines (under SpecFetch).                       *)
(***************************************************************************)
RECURSIVE SumSeq(_)
SumSeq(q) == IF q = <<>> THEN 0 ELSE Head(q) + SumSeq(Tail(q))

C7_FiveHopsFollowed ==
    (f_pc = "done" /\ engine = "requests" /\ outcome = FetchError("Too many redirects"))
        => chain > 5

\* C8: RequestsEngine.fetch_html returns text exactly when the final non-redirect
\* response has no Content-Disposition containing "attachment", a Content-Type in
\* the HTML allowlist, no declared Content-Length above max_bytes and no more than
\* max_bytes streamed bytes; every other final response ends in FetchError.
C8_ResponseAcceptable(r) ==
    /\ r.cd \notin {"Attachment; filename=a.zip"}
    /\ r.ct \in {"Text/HTML; charset=utf-8", "application/xhtml+xml"}
    /\ ~(r.cl > MaxBytes)
    /\ SumSeq(r.chunks) <= MaxBytes

C9_SameButFetchedAt(r1, r2) ==
    [r1 EXCEPT !.fetched_at = utcnow_iso(0)] = [r2 EXCEPT !.fetched_at = utcnow_iso(0)]

\* A post with its posted_at blanked when it was read from the clock.
C9_MaskPost(post) ==
    IF post.posted_at.at >= 0 THEN [post EXCEPT !.posted_at = utcnow_iso(0)] ELSE post

C9_Mask(r) ==
    [r EXCEPT !.fetched_at = utcnow_iso(0),
              !.posts = [i \in DOMAIN r.posts |-> C9_MaskPost(r.posts[i])]]

\* C9 (as claimed): two runs of _parse_thread on the same document and profile
\* return records equal in every field except fetched_at.
C9_ParseIdempotent ==
    Len(p_runs) = 2 => C9_SameButFetchedAt(p_runs[1], p_runs[2])

\* C9 (amended): two runs of _parse_thread on the same document and profile return
\* records equal in every field except fetched_at and the posted_at of the posts
\* in which no time element matched (both runs take those from the clock).
C9_ParseIdempotentButClock ==
    Len(p_runs) = 2 => C9_Mask(p_runs[1]) = C9_Mask(p_runs[2])

\* C9 witness: two runs over a document with a post timed by the page and a post
\* timed by the clock, the clock having advanced between the runs.
C9_Witness ==
    /\ Len(p_runs) = 2
    /\ Len(p_runs[1].posts) = 2
    /\ p_runs[1].posts[1].posted_at.at < 0
    /\ p_runs[1].posts[2].posted_at.at >= 0
    /\ p_runs[1].posts[2].posted_at # p_runs[2].posts[2].posted_at
    /\ p_runs[1].posts[1].attachments # <<>>
    /\ p_runs[1].title # <<>>
    /\ p_runs[1].fetched_at # p_runs[2].fetched_at


(***************************************************************************)
(* Claims about crawl_forum and main (under Spec).                         *)
(***************************************************************************)
Range(q) == {q[i] : i \in DOMAIN q}
InCrawl == m_pc \in {"list", "links", "thread_sleep"}

\* C2: a link whose resolved URL matches the attachment-url heuristic is never
\* added to visited_threads, never passed to _parse_thread (and so never fetched),
\* and no record carries it as thread_url.
C2_AttachmentLinkNeverThread ==
    \A u \in visited_threads \cup seen_on_page \cup thread_fetched
                \cup {r.thread_url : r \in produced} :
        ~is_attachment_url(u)

\* C2 witness: the loop has just skipped a link that resolves to an
\* attachment-like URL, after having parsed a thread of the same page.
C2_Witness ==
    /\ last_link = [url |-> U_dl, what |-> "skipped"]
    /\ results # <<>>
    /\ m_pc = "links"

\* C3: when _parse_thread fails for a thread, no record is emitted for it, the
\* records produced before are kept, and the crawl goes on at the next link node of
\* the same page (and from there to the following pages): every thread visited
\* without failure has its record in results.
C3_NoRecordForFailed ==
    InCrawl => /\ \A r \in Range(results) : r.thread_url \notin failed
               /\ {r.thread_url : r \in Range(results)} = visited_threads \ failed

C3_FailureStep ==
    (failed' # failed /\ failed' # {}) =>
        /\ m_pc' = "thread_sleep"
        /\ results' = results /\ all_records' = all_records
        /\ link_nodes' = Tail(link_nodes)
        /\ next_url' = next_url /\ page' = page /\ seed_i' = seed_i
        /\ page_next' = page_next
        /\ aborted' = aborted

C3_ThreadFailureIsolated == [](C3_NoRecordForFailed) /\ [][C3_FailureStep]_vars

\* C3 witness: on a second page, a thread was parsed after another thread of the
\* run had failed, while an earlier record is still held.
C3_Witness ==
    /\ failed # {}
    /\ last_link.what = "parsed" /\ m_pc = "thread_sleep"
    /\ page = 2

\* C4 (as claimed): when the run is over, every record a crawl_forum call produced
\* is in the log and every list URL of every configured forum was crawled, also
\* when the fetch of a list page failed.
C4_ListFailureKeepsProgress ==
    m_pc \in {"saved", "done"} =>
        /\ \A r \in produced : r \in Range(jsonl)
        /\ \A k \in Range(args.forums) \cap DOMAIN Conf :
              \A u \in Range(Conf[k].list_urls) : <<k, u>> \in seeds_tried

\* C5 (as claimed): when a thread is fetched, every record produced before it is
\* already in the log.
C5_WrittenBeforeNextFetch ==
    (m_pc = "thread_sleep" /\ ev[2] = "fetch") =>
        \A r \in produced :
            \/ r \in Range(jsonl)
            \/ last_link.what = "parsed" /\ r = results[Len(results)]

\* C6 (as claimed): within a crawl_forum run, human_sleep is called between every
\* two consecutive fetches.
C6_DelayBetweenFetches ==
    ~(ev[1] = "fetch" /\ ev[2] = "fetch")

\* C10: without --download-attachments the downloader requests no URL, saves no
\* file and writes no manifest; and in every run nothing is requested by the
\* downloader while threads are crawled, parsed and saved.
C10_QuarantineOptIn ==
    /\ ~args.download_attachments =>
          (dl_requests = {} /\ quarantine = {} /\ manifests = {} /\ m_pc # "downloads")
    /\ (InCrawl \/ m_pc \in {"forums", "saved"}) => (dl_requests = {} /\ quarantine = {})

\* C10 witness: a run without the option has ended with a logged record that
\* carries attachment metadata.
C10_Witness ==
    /\ ~args.download_attachments
    /\ m_pc = "done"
    /\ \E r \in Range(jsonl) : att_urls_of_posts(r.posts) # <<>>

(***************************************************************************)
(* Claims about the quarantine pass (under SpecQuarantine).                *)
(***************************************************************************)
EndsWith(name, suffix) ==
    /\ Len(name) >= Len(suffix)
    /\ SubSeq(name, Len(name) - Len(suffix) + 1, Len(name)) = suffix

\* The artifacts in the folder dir: its files that are not .part files.
ArtifactsIn(dir) ==
    {f \in quarantine : f.path[1] = dir[1] /\ f.path[2] = dir[2] /\ ~EndsWith(f.path[3], DotPart)}

\* C11 (as claimed): for every thread whose manifest is written, the thread's
\* folder holds at most dl_max_per_thread artifacts and the manifest's downloaded
\* list has exactly one entry per artifact of the folder.
C11_OneEntryPerArtifact ==
    \A m \in manifests :
        /\ Cardinality(ArtifactsIn(m.dir)) <= args.dl_max_per_thread
        /\ Len(m.downloaded) = Cardinality(ArtifactsIn(m.dir))

\* The part of C11 that the loop of lines 630-636 does enforce: at most
\* dl_max_per_thread downloads succeed for a thread, each one has its manifest
\* entry, and no URL is tried once the cap is reached.
C11_CapOnDownloads ==
    /\ q_count <= args.dl_max_per_thread
    /\ Len(manifest) = q_count
    /\ \A m \in manifests : Len(m.downloaded) <= args.dl_max_per_thread
    /\ (m_pc = "downloads" /\ q_count >= args.dl_max_per_thread) => ~ENABLED QuarantineDownload

RECURSIVE Flatten(_)
Flatten(chunks) == IF chunks = <<>> THEN <<>> ELSE Head(chunks) \o Flatten(Tail(chunks))

\* A step of QuarantineDownload: the only one that stays in the loop over att_urls
\* and moves on in it.
DownloadStep == m_pc = "downloads" /\ m_pc' = "downloads" /\ q_urls' # q_urls

\* The answer was streamed: the request was made and passed the tests on the
\* declared content type and length.
Streamed(dl) ==
    /\ dl.ans.kind = "response"
    /\ dl.ans.ct \notin SAFE_TEXT_CT
    /\ ~(dl.ans.cl >= 0 /\ dl.ans.cl > args.dl_max_size)

PartPathOf(dl, artifacts_dir) ==
    <<artifacts_dir[1], artifacts_dir[2],
      sanitize_filename(IF dl.ans.disp_name # <<>> THEN dl.ans.disp_name[1]
                        ELSE base_from_url(dl.url), FileBin) \o DotPart>>

CurrentDir == <<sanitize_source(all_records[q_rec].source), all_records[q_rec].thread_hash>>

\* C12: no file in the quarantine directory is larger than max_bytes, and a
\* download whose streamed bytes exceed max_bytes returns no artifact: it adds no
\* manifest entry, does not count, changes no saved artifact and leaves no .part
\* file behind.
C12_NoFileOverCap == \A f \in quarantine : Len(f.content) <= args.dl_max_size

C12_AbortStep ==
    (DownloadStep /\ Streamed(last_dl') /\ Len(Flatten(last_dl'.ans.chunks)) > args.dl_max_size)
        => /\ ~last_dl'.saved
           /\ manifest' = manifest /\ q_count' = q_count
           /\ ArtifactsIn(CurrentDir)' = ArtifactsIn(CurrentDir)
           /\ \A f \in quarantine' : f.path # PartPathOf(last_dl', CurrentDir)

C12_PerFileCap == [](C12_NoFileOverCap) /\ [][C12_AbortStep]_vars

\* C12 witness: a body that exceeds max_bytes only with its last chunk was streamed
\* and dropped, while an artifact of exactly max_bytes is saved.
C12_Witness ==
    /\ Streamed(last_dl) /\ last_dl.ans.cl = -1
    /\ Len(Flatten(last_dl.ans.chunks)) > args.dl_max_size
    /\ ~last_dl.saved
    /\ \E f \in quarantine : Len(f.content) = args.dl_max_size

C13_OtherHostNotRequested ==
    args.dl_same_host =>
        \A u \in dl_requests : \E i \in DOMAIN all_records :
            urlparse_netloc(u) = urlparse_netloc(all_records[i].thread_url)

\* C14: every file stream_download leaves under its final name has a name that ends
\* in ".quarantine"; the meta it returns names that file and records the sha256 and
\* the size of the bytes written, which are the bytes the server sent, and the
\* declared content type.
C14_InertSuffix ==
    \A f \in quarantine :
        EndsWith(f.path[3], DotQuarantine) \/ EndsWith(f.path[3], DotPart)

C14_SaveStep ==
    (DownloadStep /\ last_dl'.saved) =>
        /\ Len(manifest') = Len(manifest) + 1
        /\ LET e == manifest'[Len(manifest')] IN
           /\ EndsWith(e.saved_as[3], DotQuarantine)
           /\ e.url = last_dl'.url
           /\ e.content_type = last_dl'.ans.ct
           /\ \E f \in quarantine' :
                 /\ f.path = e.saved_as
                 /\ f.content = Flatten(last_dl'.ans.chunks)
                 /\ e.sha256 = sha256(f.content)
                 /\ e.size = Len(f.content)

C14_ArtifactAsRecorded == [](C14_InertSuffix) /\ [][C14_SaveStep]_vars

\* C14 witness: a file sent under a Content-Disposition name, in two chunks, has
\* been saved and entered in the manifest.
C14_Witness ==
    /\ last_dl.saved /\ last_dl.ans.disp_name # <<>> /\ Len(last_dl.ans.chunks) = 2
    /\ manifest # <<>>
    /\ \E f \in quarantine : f.path = manifest[Len(manifest)].saved_as

(***************************************************************************)
(* postproc_darkforums.py.  A text is a sequence of tokens: words, white   *)
(* space, markup tags, handles; its length is the sum of the lengths of    *)
(* its tokens.  A URL is the host, path segments and query parameters,     *)
(* each parameter with its "?" or "&".  Prices are left out of the records.*)
(***************************************************************************)
TokLen == ("w" :> 1) @@ ("wwwwwwwwww" :> 10) @@ ("t" :> 1) @@ ("a" :> 1) @@ ("x" :> 1) @@ ("n" :> 1) @@ (" " :> 1)
            @@ ("\n" :> 1) @@ ("[font=3]" :> 8) @@ ("[/font]" :> 7) @@ ("leak" :> 4)
            @@ ("database" :> 8) @@ ("Database" :> 8) @@ ("login" :> 5) @@ ("steam" :> 5)
            @@ ("src" :> 3) @@ ("@user1" :> 6) @@ ("Thread" :> 6) @@ ("Forum" :> 5)
            @@ ("Announcement" :> 12) @@ ("Just" :> 4) @@ ("moment..." :> 9)
            @@ ("Checking..." :> 52)

RECURSIVE TextLen(_)
TextLen(text) == IF text = <<>> THEN 0 ELSE TokLen[Head(text)] + TextLen(Tail(text))

WhiteSpace == {" ", "\n"}
FontTags == {"[font=3]", "[/font]"}
Handles == {"@user1"}
StartsNonWord == WhiteSpace \cup FontTags \cup Handles
EndsNonWord == WhiteSpace \cup FontTags \cup {"moment..."}

Lower(tok) == CASE tok = "Database" -> "database" [] tok = "Thread" -> "thread"
                [] tok = "Forum" -> "forum" [] tok = "Announcement" -> "announcement"
                [] tok = "Just" -> "just" [] OTHER -> tok

CF_TITLES == {<<"Checking...">>, <<"Just", " ", "a", " ", "moment...">>}

\* The words of the model for each category of KEYWORDS.
KEYWORDS == [db_leak |-> {"leak", "database"}, gov_id |-> {}, gaming |-> {"steam"},
             source |-> {"src"}, account |-> {"login"}]

PageParams == {"?page=1", "?page=2", "&page=2"}
ActionParams == {"?action=lastpost", "&action=newpost"}
AnnouncementSegs == {"/Announcement-n"}
ForumRootSegs == {"/Forum-x"}

\* (mutant) the strict pass excludes what the relaxed pass excludes.
STRICT_EXCLUDE_URL_PATTERNS_as_relaxed == {"announcement", "forum root", "action only"}

STRICT_EXCLUDE_URL_PATTERNS == {"announcement", "forum root", "action only", "page"}
RELAXED_EXCLUDE_URL_PATTERNS == {"announcement", "forum root", "action only"}

\* EXCLUDE_URL_RE.search(url_raw) for the alternation of the patterns.
exclude_url(url, patterns) ==
    \/ "announcement" \in patterns /\ \E i \in DOMAIN url : url[i] \in AnnouncementSegs
    \/ "forum root" \in patterns /\ url # <<>> /\ url[Len(url)] \in ForumRootSegs
    \/ "action only" \in patterns /\ url # <<>> /\ url[Len(url)] \in ActionParams
    \/ "page" \in patterns /\ url # <<>> /\ url[Len(url)] \in PageParams

hash_text(str) == sha256(str)

RECURSIVE strip_ws(_)
strip_ws(text) ==
    IF text # <<>> /\ Head(text) \in WhiteSpace THEN strip_ws(Tail(text))
    ELSE IF text # <<>> /\ text[Len(text)] \in WhiteSpace
    THEN strip_ws(SubSeq(text, 1, Len(text) - 1))
    ELSE text

\* The words of the last path segment, "-" replaced by " ".
SlugText == ("/Thread-a" :> <<"Thread", " ", "a">>) @@ ("/Thread-x" :> <<"Thread", " ", "x">>)
              @@ ("/Database-leak" :> <<"Database", " ", "leak">>)
              @@ ("/Forum-x" :> <<"Forum", " ", "x">>)
              @@ ("/Announcement-n" :> <<"Announcement", " ", "n">>)

RECURSIVE last_segment(_)
last_segment(url) ==
    IF url = <<>> THEN <<>>
    ELSE IF url[Len(url)] \in DOMAIN SlugText THEN SlugText[url[Len(url)]]
    ELSE last_segment(SubSeq(url, 1, Len(url) - 1))

\* Lines 59-63.  title is None (<<>>) or <<text>>.
normalize_title(title, url) ==
    IF title # <<>> /\ strip_ws(title[1]) # <<>> /\ title[1] \notin CF_TITLES
    THEN strip_ws(title[1])
    ELSE strip_ws(last_segment(url))

\* Lines 65-72.
is_cloudflare_block(title, posts, keep_cf) ==
    IF keep_cf THEN FALSE
    ELSE IF title # <<>> /\ title[1] \in CF_TITLES THEN TRUE
    ELSE posts = <<>>

\* re.search(r"\b(word)\b", t) for a word of the set on the lower-cased text.
word_found(text, words) ==
    \E i \in DOMAIN text :
        /\ Lower(text[i]) \in words
        /\ (i = 1 \/ text[i - 1] \in EndsNonWord)
        /\ (i = Len(text) \/ text[i + 1] \in StartsNonWord)

\* Lines 74-82: sorted(set(out)), kept as the set.
tag_keywords(text) ==
    IF text = <<>> THEN {} ELSE {k \in DOMAIN KEYWORDS : word_found(text, KEYWORDS[k])}

\* Lines 84-96, the handles: RE_TELEGRAM matches a handle that no word character
\* precedes (the handles of the model are followed by white space or the end).
extract_contacts(text) ==
    {text[i] : i \in {j \in DOMAIN text : text[j] \in Handles
                                          /\ (j = 1 \/ text[j - 1] \in EndsNonWord)}}

RECURSIVE collapse_ws(_, _)
collapse_ws(text, in_run) ==
    IF text = <<>> THEN <<>>
    ELSE IF Head(text) \in WhiteSpace
    THEN (IF in_run THEN <<>> ELSE <<" ">>) \o collapse_ws(Tail(text), TRUE)
    ELSE <<Head(text)>> \o collapse_ws(Tail(text), FALSE)

RECURSIVE remove_font(_)
remove_font(text) ==
    IF text = <<>> THEN <<>>
    ELSE (IF Head(text) \in FontTags THEN <<>> ELSE <<Head(text)>>) \o remove_font(Tail(text))

\* Lines 98-110 (posted_at is not in the records of the model).
clean_post(p) ==
    LET c0 == strip_ws(IF p.content = <<>> THEN <<>> ELSE p.content[1])
        c  == strip_ws(collapse_ws(remove_font(c0), FALSE))
    IN  [post_url |-> p.post_url,
         content  |-> IF c = <<>> THEN <<>> ELSE <<c>>,
         author   |-> p.author]

\* (mutant) the URL is left as it is.
canon_thread_url_raw(u) == u

\* Lines 112-114.
canon_thread_url(u) ==
    IF u # <<>> /\ u[Len(u)] \in PageParams THEN SubSeq(u, 1, Len(u) - 1) ELSE u

ContentOf(p) == IF p.content = <<>> THEN <<>> ELSE p.content[1]

\* (mutant) a post is kept whether or not its fingerprint was seen.
RECURSIVE norm_posts_of_keep_seen(_, _, _, _)
norm_posts_of_keep_seen(posts, min_chars, seen, acc) ==
    IF posts = <<>> THEN [norm_posts |-> acc, seen_posts |-> seen]
    ELSE LET p == clean_post(Head(posts))
             phash == hash_text(<<p.post_url, ContentOf(p)>>)
         IN  IF min_chars > 0 /\ (p.content = <<>> \/ TextLen(p.content[1]) < min_chars)
             THEN norm_posts_of_keep_seen(Tail(posts), min_chars, seen, acc)
             ELSE norm_posts_of_keep_seen(Tail(posts), min_chars, seen \cup {phash},
                                          Append(acc, p))

\* Lines 152-162: the loop over the posts of one record; the result is norm_posts
\* and seen_posts afterwards.
RECURSIVE norm_posts_of(_, _, _, _)
norm_posts_of(posts, min_chars, seen, acc) ==
    IF posts = <<>> THEN [norm_posts |-> acc, seen_posts |-> seen]
    ELSE LET p == clean_post(Head(posts))
             phash == hash_text(<<p.post_url, ContentOf(p)>>)
         IN  IF min_chars > 0 /\ (p.content = <<>> \/ TextLen(p.content[1]) < min_chars)
             THEN norm_posts_of(Tail(posts), min_chars, seen, acc)
             ELSE IF phash \in seen
             THEN norm_posts_of(Tail(posts), min_chars, seen, acc)
             ELSE norm_posts_of(Tail(posts), min_chars, seen \cup {phash}, Append(acc, p))

RECURSIVE join_sp(_)
join_sp(texts) ==
    IF texts = <<>> THEN <<>>
    ELSE IF Len(texts) = 1 THEN texts[1]
    ELSE texts[1] \o <<" ">> \o join_sp(Tail(texts))

\* Lines 171-172.
sample_of(norm_posts, title) ==
    IF norm_posts = <<>> THEN title
    ELSE join_sp([i \in 1..(IF Len(norm_posts) < 3 THEN Len(norm_posts) ELSE 3)
                     |-> ContentOf(norm_posts[i])])

\* Lines 176-188.
triage_record(obj, url_raw, url, title, thread_key, norm_posts) ==
    [source      |-> obj.source,
     thread_url  |-> url_raw,
     canon_url   |-> url,
     title       |-> title,
     thread_hash |-> thread_key,
     post_count  |-> Len(norm_posts),
     posts       |-> norm_posts,
     tags        |-> tag_keywords(title \o <<" ">> \o sample_of(norm_posts, title)),
     contacts    |-> extract_contacts(title \o <<" ">> \o sample_of(norm_posts, title))]

MIN_CHARS_STRICT == 20      \* --min-chars-strict, default
MIN_CHARS_RELAXED == 5      \* --min-chars-relaxed, default
FIRST_LEN_MIN == 80
POST_COUNT_MIN == 3
HIGH_VALUE_TAGS == {"db_leak", "source", "account"}

\* (mutant) the strict pass lets threads without posts through.
allow_empty_strict_on == TRUE

\* Line 302: the strict pass is called with allow_empty=False.
allow_empty_strict == FALSE

\* (mutant) the relaxed pass drops threads left without posts, as the strict one.
pass_params_relaxed_no_empty(pass, cfg) ==
    IF pass = "strict"
    THEN [exclude_url_patterns |-> STRICT_EXCLUDE_URL_PATTERNS, keep_cf |-> cfg.keep_cf_strict,
          min_chars |-> MIN_CHARS_STRICT, allow_empty |-> allow_empty_strict]
    ELSE [exclude_url_patterns |-> RELAXED_EXCLUDE_URL_PATTERNS, keep_cf |-> TRUE,
          min_chars |-> MIN_CHARS_RELAXED, allow_empty |-> FALSE]

\* Lines 296-303 and 312-319: the arguments of the two calls of filter_records.
\* --keep-cf-relaxed and --allow-empty-relaxed are store_true options with
\* default=True: they are True in every run.
pass_params(pass, cfg) ==
    IF pass = "strict"
    THEN [exclude_url_patterns |-> STRICT_EXCLUDE_URL_PATTERNS, keep_cf |-> cfg.keep_cf_strict,
          min_chars |-> MIN_CHARS_STRICT, allow_empty |-> allow_empty_strict]
    ELSE [exclude_url_patterns |-> RELAXED_EXCLUDE_URL_PATTERNS, keep_cf |-> TRUE,
          min_chars |-> MIN_CHARS_RELAXED, allow_empty |-> TRUE]

\* Lines 132-201: the body of `for line in fin` for a line that holds the JSON
\* object obj: what happens to the record ("excluded", "cloudflare", "empty",
\* "duplicate" or "kept") and the state of the pass afterwards.
filter_line(obj, par, seen_t, seen_p) ==
    LET url_raw == obj.thread_url
        url     == canon_thread_url(url_raw)
        title   == normalize_title(obj.title, url_raw)
        np      == norm_posts_of(obj.posts, par.min_chars, seen_p, <<>>)
        thread_key == IF obj.thread_hash # <<>> THEN obj.thread_hash[1] ELSE hash_text(url)
        Skip(why, sp) == [what |-> why, rec |-> <<>>, seen_threads |-> seen_t, seen_posts |-> sp]
    IN  IF exclude_url(url_raw, par.exclude_url_patterns) THEN Skip("excluded", seen_p)
        ELSE IF is_cloudflare_block(obj.title, obj.posts, par.keep_cf)
        THEN Skip("cloudflare", seen_p)
        ELSE IF np.norm_posts = <<>> /\ ~par.allow_empty THEN Skip("empty", np.seen_posts)
        ELSE IF thread_key \in seen_t THEN Skip("duplicate", np.seen_posts)
        ELSE [what |-> "kept",
              rec  |-> <<triage_record(obj, url_raw, url, title, thread_key, np.norm_posts)>>,
              seen_threads |-> seen_t \cup {thread_key},
              seen_posts   |-> np.seen_posts]

\* Line 235: `if title in CF_TITLES: score -= 2`.
cf_penalty(title) == IF title \in CF_TITLES THEN 2 ELSE 0

\* (mutant) a contact handle does not count.
triage_score_no_contact(rec) ==
    (IF rec.tags \cap HIGH_VALUE_TAGS # {} THEN 2 ELSE 0)
      + (IF rec.posts # <<>> /\ TextLen(ContentOf(rec.posts[1])) >= FIRST_LEN_MIN THEN 1 ELSE 0)
      + (IF rec.post_count >= POST_COUNT_MIN THEN 1 ELSE 0)
      - cf_penalty(rec.title)
      - (IF \E i \in DOMAIN rec.thread_url : rec.thread_url[i] \in ActionParams THEN 1 ELSE 0)

\* Lines 219-240.
triage_score(rec) ==
    (IF rec.tags \cap HIGH_VALUE_TAGS # {} THEN 2 ELSE 0)
      + (IF rec.contacts # {} THEN 1 ELSE 0)
      + (IF rec.posts # <<>> /\ TextLen(ContentOf(rec.posts[1])) >= FIRST_LEN_MIN THEN 1 ELSE 0)
      + (IF rec.post_count >= POST_COUNT_MIN THEN 1 ELSE 0)
      - cf_penalty(rec.title)
      - (IF \E i \in DOMAIN rec.thread_url : rec.thread_url[i] \in ActionParams THEN 1 ELSE 0)

\* (mutant) the drop threshold is tested first.
triage_class_drop_first(sc, keep_th, drop_th) ==
    IF sc < drop_th THEN "drop" ELSE IF sc >= keep_th THEN "keep" ELSE "review"

\* Lines 245-253: the branch triage_split takes for the score sc.
triage_class(sc, keep_th, drop_th) ==
    IF sc >= keep_th THEN "keep" ELSE IF sc < drop_th THEN "drop" ELSE "review"

TriageOnly ==
    UNCHANGED <<fetchVars, parseVars, mainVars, histVars, batchVars, readerVars, engVars>>

\* One iteration of `for line in fin` (lines 132-201).
FilterLine ==
    /\ tri_pc \in {"strict", "relaxed"} /\ line_i < Len(tlog)
    /\ line_i' = line_i + 1
    /\ LET line == tlog[line_i + 1] IN
       IF line.kind # "json"
       THEN UNCHANGED <<seen_threads, seen_posts, out_records, out_lines>>
       ELSE LET res == filter_line(line.obj, pass_params(tri_pc, tcfg), seen_threads, seen_posts)
            IN  /\ seen_threads' = res.seen_threads
                /\ seen_posts' = res.seen_posts
                /\ out_records' = out_records \o res.rec
                /\ out_lines' = IF res.rec = <<>> THEN out_lines ELSE Append(out_lines, line_i + 1)
    /\ UNCHANGED <<tri_pc, tlog, tcfg, strict_records, strict_lines, relaxed_records,
                   relaxed_lines, split_i, keep, review, drop_meta, scores>>
    /\ TriageOnly

\* The return of filter_records (line 203) and what __main__ does next: the
\* relaxed pass after the strict one, triage_split after the relaxed one.
PassEnd ==
    /\ tri_pc \in {"strict", "relaxed"} /\ line_i = Len(tlog)
    /\ IF tri_pc = "strict"
       THEN /\ strict_records' = out_records /\ strict_lines' = out_lines
            /\ tri_pc' = "relaxed"
            /\ UNCHANGED <<relaxed_records, relaxed_lines>>
       ELSE /\ relaxed_records' = out_records /\ relaxed_lines' = out_lines
            /\ tri_pc' = "triage"
            /\ UNCHANGED <<strict_records, strict_lines>>
    /\ line_i' = 0 /\ seen_threads' = {} /\ seen_posts' = {}
    /\ out_records' = <<>> /\ out_lines' = <<>>
    /\ UNCHANGED <<tlog, tcfg, split_i, keep, review, drop_meta, scores>>
    /\ TriageOnly

\* One iteration of the loop of triage_split (lines 244-253).
TriageStep ==
    /\ tri_pc = "triage" /\ split_i < Len(relaxed_records)
    /\ split_i' = split_i + 1
    /\ LET r  == relaxed_records[split_i + 1]
           sc == triage_score(r)
           cl == triage_class(sc, tcfg.keep_threshold, tcfg.drop_threshold)
       IN  /\ scores' = Append(scores, sc)
           /\ keep' = IF cl = "keep" THEN Append(keep, r) ELSE keep
           /\ review' = IF cl = "review" THEN Append(review, r) ELSE review
           /\ drop_meta' = IF cl = "drop" THEN Append(drop_meta, [r EXCEPT !.posts = <<>>])
                           ELSE drop_meta
    /\ UNCHANGED <<tri_pc, tlog, tcfg, line_i, seen_threads, seen_posts, out_records, out_lines,
                   strict_records, strict_lines, relaxed_records, relaxed_lines>>
    /\ TriageOnly

\* The return of triage_split (line 255); the three lists are written out.
TriageEnd ==
    /\ tri_pc = "triage" /\ split_i = Len(relaxed_records)
    /\ tri_pc' = "done"
    /\ UNCHANGED <<tlog, tcfg, line_i, seen_threads, seen_posts, out_records, out_lines,
                   strict_records, strict_lines, relaxed_records, relaxed_lines,
                   split_i, keep, review, drop_meta, scores>>
    /\ TriageOnly

(***************************************************************************)
(* The input logs of the model: up to MaxLines lines, each one blank, not  *)
(* JSON, or a ThreadRecord as the crawler writes it.  The records of one   *)
(* log all carry a thread_hash (the fingerprint of title and contents) or  *)
(* none does.                                                              *)
(***************************************************************************)
MaxLines == 2

Rep(n, tok) == [i \in 1..n |-> tok]

C_long  == Rep(20, "w") \o <<" ", "leak", " ", "@user1">>
C_mid   == <<"w", "w", "w", " ", "\n", "w", "w", "w">>
C_short == <<"w", "w">>
C_font  == <<"[font=3]", " ", "w", "[/font]">>

T_a      == <<"h", "/Thread-a">>
T_a_p1   == <<"h", "/Thread-a", "?page=1">>
T_a_p2   == <<"h", "/Thread-a", "?page=2">>
T_a_act  == <<"h", "/Thread-a", "?action=lastpost">>
T_x      == <<"h", "/Thread-x">>
T_x_p2   == <<"h", "/Thread-x", "?page=2">>
T_leak   == <<"h", "/Database-leak">>
T_forum  == <<"h", "/Forum-x", "?page=2">>
T_ann    == <<"h", "/Announcement-n">>

LogPost(post_url, content) == [post_url |-> post_url, content |-> <<content>>, author |-> <<>>]
PA == LogPost(<<"h", "/Thread-a", "?pid=1">>, C_long)

LogHash(title, posts) == sha256(<<title, [i \in DOMAIN posts |-> ContentOf(posts[i])]>>)

JsonLine(url, title, posts, with_hash) ==
    [kind |-> "json",
     obj  |-> [source |-> "darkforums", thread_url |-> url, title |-> title, posts |-> posts,
               thread_hash |-> IF with_hash THEN <<LogHash(title, posts)>> ELSE <<>>]]
OtherLine(kind) ==
    [kind |-> kind,
     obj  |-> [source |-> "", thread_url |-> NoURL, title |-> <<>>, posts |-> <<>>,
               thread_hash |-> <<>>]]

Title_t  == << <<"t">> >>
Title_cf == << <<"Just", " ", "a", " ", "moment...">> >>

LogLines(h) ==
    {JsonLine(T_a, Title_t, <<PA>>, h),
     JsonLine(T_a_p1, Title_t, <<PA>>, h),
     JsonLine(T_a_p2, Title_t, <<PA>>, h),
     JsonLine(T_x, Title_t, <<LogPost(T_x, C_mid)>>, h),
     JsonLine(T_x_p2, Title_t, <<LogPost(T_x_p2, C_mid)>>, h),
     JsonLine(T_leak, Title_cf, <<>>, h),
     JsonLine(T_x, Title_cf, <<LogPost(T_x, C_font)>>, h),
     JsonLine(T_a_act, Title_t, <<PA>>, h),
     JsonLine(T_forum, <<>>, <<LogPost(T_forum, C_short)>>, h),
     JsonLine(T_ann, Title_t, <<PA>>, h),
     OtherLine("blank"), OtherLine("bad")}

Logs == UNION {UNION {[1..n -> LogLines(h)] : n \in 0..MaxLines} : h \in BOOLEAN}

InitTriage ==
    /\ tri_pc = "strict"
    /\ tlog \in Logs
    /\ tcfg \in [keep_cf_strict : BOOLEAN, keep_threshold : {2}, drop_threshold : {0}]
    /\ line_i = 0 /\ seen_threads = {} /\ seen_posts = {}
    /\ out_records = <<>> /\ out_lines = <<>>
    /\ strict_records = <<>> /\ strict_lines = <<>>
    /\ relaxed_records = <<>> /\ relaxed_lines = <<>>
    /\ split_i = 0 /\ keep = <<>> /\ review = <<>> /\ drop_meta = <<>> /\ scores = <<>>

InitTriageRun ==
    InitTriage /\ InitFetchIdle /\ InitParseIdle /\ InitMainIdle /\ InitBatchIdle
        /\ InitReadersIdle

NextTriage ==
    \/ FilterLine
    \/ PassEnd
    \/ TriageStep
    \/ TriageEnd

SpecTriage == InitTriageRun /\ [][NextTriage]_vars

(***************************************************************************)
(* Claims about filter_records (under SpecTriage).                         *)
(***************************************************************************)
IsRecordLine(i) == i \in DOMAIN tlog /\ tlog[i].kind = "json"

WithoutTrailingPage(u) ==
    IF u # <<>> /\ u[Len(u)] \in PageParams THEN SubSeq(u, 1, Len(u) - 1) ELSE u

\* Lines i < j hold records with the same title and the same post contents whose
\* thread_url values differ only in a trailing pagination parameter.
PaginationPair(i, j) ==
    /\ i < j /\ IsRecordLine(i) /\ IsRecordLine(j)
    /\ tlog[i].obj.title = tlog[j].obj.title
    /\ [k \in DOMAIN tlog[i].obj.posts |-> tlog[i].obj.posts[k].content]
         = [k \in DOMAIN tlog[j].obj.posts |-> tlog[j].obj.posts[k].content]
    /\ tlog[i].obj.thread_url # tlog[j].obj.thread_url
    /\ WithoutTrailingPage(tlog[i].obj.thread_url) = WithoutTrailingPage(tlog[j].obj.thread_url)

Pairs == {pr \in (DOMAIN tlog) \X (DOMAIN tlog) : PaginationPair(pr[1], pr[2])}

\* The records of a pass's output that come from line i or line j.
Survivors(lines, i, j) == {k \in DOMAIN lines : lines[k] \in {i, j}}

PairKey(i) ==
    IF tlog[i].obj.thread_hash # <<>> THEN tlog[i].obj.thread_hash[1]
    ELSE hash_text(WithoutTrailingPage(tlog[i].obj.thread_url))

\* C15 (as claimed): for every such pair, each of the two passes outputs exactly one
\* record of the pair.
C15_ExactlyOneSurvivor ==
    tri_pc = "done" =>
        \A pr \in Pairs :
            /\ Cardinality(Survivors(strict_lines, pr[1], pr[2])) = 1
            /\ Cardinality(Survivors(relaxed_lines, pr[1], pr[2])) = 1

\* C15 (amended): for every such pair, each pass outputs at most one record of the
\* pair; the strict pass outputs none whose URL ends in a pagination parameter; and
\* when one of the two URLs matches no exclusion pattern of the relaxed pass, the
\* relaxed output has exactly one record with the thread key of the pair.
C15_AtMostOneSurvivor ==
    tri_pc = "done" =>
        \A pr \in Pairs :
            /\ Cardinality(Survivors(strict_lines, pr[1], pr[2])) <= 1
            /\ Cardinality(Survivors(relaxed_lines, pr[1], pr[2])) <= 1
            /\ \A k \in Survivors(strict_lines, pr[1], pr[2]) :
                  strict_records[k].thread_url = WithoutTrailingPage(strict_records[k].thread_url)
            /\ (\E i \in {pr[1], pr[2]} :
                    ~exclude_url(tlog[i].obj.thread_url, RELAXED_EXCLUDE_URL_PATTERNS))
                  => Cardinality({k \in DOMAIN relaxed_records :
                                     relaxed_records[k].thread_hash = PairKey(pr[1])}) = 1

\* C15 witness: a pair of records without thread_hash, both URLs ending in a
\* pagination parameter, has gone through both passes: one survives the relaxed
\* pass and none the strict pass.
C15_Witness ==
    /\ tri_pc = "done"
    /\ \E pr \in Pairs :
          /\ tlog[pr[1]].obj.thread_hash = <<>>
          /\ tlog[pr[1]].obj.thread_url # WithoutTrailingPage(tlog[pr[1]].obj.thread_url)
          /\ tlog[pr[2]].obj.thread_url # WithoutTrailingPage(tlog[pr[2]].obj.thread_url)
          /\ Cardinality(Survivors(relaxed_lines, pr[1], pr[2])) = 1
          /\ Cardinality(Survivors(strict_lines, pr[1], pr[2])) = 0

\* Line i holds a record with a challenge title and no posts.
ChallengePage(i) ==
    /\ IsRecordLine(i)
    /\ tlog[i].obj.title # <<>> /\ tlog[i].obj.title[1] \in CF_TITLES
    /\ tlog[i].obj.posts = <<>>

\* C16 (as claimed): with the default thresholds, every record of the relaxed
\* output that comes from a challenge page without posts has a negative triage
\* score and is in drop_meta, with its posts cleared and its metadata kept.
C16_ChallengePageDropped ==
    tri_pc = "done" =>
        \A k \in DOMAIN relaxed_records :
            ChallengePage(relaxed_lines[k]) =>
                /\ scores[k] < 0
                /\ \E d \in DOMAIN drop_meta :
                      drop_meta[d] = [relaxed_records[k] EXCEPT !.posts = <<>>]

\* The part of C16 that holds: a challenge page without posts whose URL is not
\* excluded survives the relaxed pass unless an earlier line has its thread key.
C16_ChallengePageSurvives ==
    tri_pc = "done" =>
        \A i \in DOMAIN tlog :
            (ChallengePage(i) /\ ~exclude_url(tlog[i].obj.thread_url, RELAXED_EXCLUDE_URL_PATTERNS))
                => \E k \in DOMAIN relaxed_records : relaxed_records[k].thread_hash = PairKey(i)

C_120 == Rep(10, "wwwwwwwwww") \o Rep(8, "w") \o <<" ", "leak", " ", "@user1">>
C_80  == Rep(8, "wwwwwwwwww")
C_79  == Rep(7, "wwwwwwwwww") \o Rep(9, "w")
C_handle == Rep(5, "w") \o <<" ", "@user1">>
C_login  == <<"login", " ", "w", "w">>

T_a_act_pid == <<"h", "/Thread-a", "?action=lastpost", "&pid=1">>

SplitPost(url, n, content) == LogPost(url \o <<"?pid=" \o ToString(n)>>, content)

SplitLines(h) ==
    {JsonLine(T_a, Title_t, <<SplitPost(T_a, 1, C_120), SplitPost(T_a, 2, Rep(5, "w")),
                              SplitPost(T_a, 3, Rep(6, "w")), SplitPost(T_a, 4, Rep(7, "w"))>>, h),
     JsonLine(T_x, Title_t, <<SplitPost(T_x, 1, C_79)>>, h),
     JsonLine(T_leak, Title_t, <<SplitPost(T_leak, 1, C_80)>>, h),
     JsonLine(T_x_p2, Title_t, <<SplitPost(T_x, 1, C_handle)>>, h),
     JsonLine(T_a_p2, Title_t, <<SplitPost(T_a, 5, Rep(5, "w")), SplitPost(T_a, 6, Rep(6, "w")),
                                 SplitPost(T_a, 7, Rep(7, "w"))>>, h),
     JsonLine(T_x, Title_t, <<SplitPost(T_x, 2, C_login)>>, h),
     JsonLine(T_a_act_pid, Title_t, <<SplitPost(T_a, 8, Rep(5, "w"))>>, h),
     JsonLine(T_leak, Title_cf, <<>>, h),
     JsonLine(T_x, Title_cf, <<>>, h)}

SplitLogs == UNION {UNION {[1..n -> SplitLines(h)] : n \in 0..MaxLines} : h \in BOOLEAN}

\* <<--keep-threshold, --drop-threshold>>: the defaults, an inverted pair, and
\* pairs that put records of the logs into each class.
SplitThresholds == {<<2, 0>>, <<0, 1>>, <<3, 1>>, <<1, 1>>}

InitSplit ==
    /\ tri_pc = "strict"
    /\ tlog \in SplitLogs
    /\ \E th \in SplitThresholds :
          tcfg = [keep_cf_strict |-> FALSE, keep_threshold |-> th[1], drop_threshold |-> th[2]]
    /\ line_i = 0 /\ seen_threads = {} /\ seen_posts = {}
    /\ out_records = <<>> /\ out_lines = <<>>
    /\ strict_records = <<>> /\ strict_lines = <<>>
    /\ relaxed_records = <<>> /\ relaxed_lines = <<>>
    /\ split_i = 0 /\ keep = <<>> /\ review = <<>> /\ drop_meta = <<>> /\ scores = <<>>

InitSplitRun ==
    InitSplit /\ InitFetchIdle /\ InitParseIdle /\ InitMainIdle /\ InitBatchIdle
        /\ InitReadersIdle

NextSplit ==
    \/ FilterLine
    \/ PassEnd
    \/ TriageStep
    \/ TriageEnd

SpecSplit == InitSplitRun /\ [][NextSplit]_vars

(***************************************************************************)
(* Claims about triage_score and triage_split (under SpecSplit).           *)
(***************************************************************************)
FirstLen(r) == IF r.posts = <<>> THEN 0 ELSE TextLen(ContentOf(r.posts[1]))

HasActionParam(u) == \E i \in DOMAIN u : u[i] \in ActionParams

\* The sum C18 spells out.
PlainScore(r) ==
    (IF \E t \in r.tags : t \in {"db_leak", "source", "account"} THEN 2 ELSE 0)
      + (IF r.contacts # {} THEN 1 ELSE 0)
      + (IF FirstLen(r) >= 80 THEN 1 ELSE 0)
      + (IF r.post_count >= 3 THEN 1 ELSE 0)

\* The example of C18.
ScoreExample(r) ==
    /\ r.tags = {"db_leak"} /\ Cardinality(r.contacts) = 1
    /\ FirstLen(r) = 120 /\ r.post_count = 4

\* C18: every record triage_split has scored whose title is not a challenge
\* title and whose URL carries no action parameter got 2 for a high-value tag,
\* plus 1 for a contact handle, plus 1 for a first post of at least 80
\* characters, plus 1 for at least 3 posts; the record with tags {db_leak}, one
\* handle, a first post of 120 characters and 4 posts got 5.
C18_ScoreIsSumOfSignals ==
    \A i \in 1..split_i :
        LET r == relaxed_records[i] IN
        (r.title \notin CF_TITLES /\ ~HasActionParam(r.thread_url)) =>
            /\ scores[i] = PlainScore(r)
            /\ ScoreExample(r) => scores[i] = 5

\* C18 witness: the record of the example has been scored, and so has a record
\* with none of the four signals.
C18_Witness ==
    /\ \E i \in 1..split_i :
          /\ ScoreExample(relaxed_records[i]) /\ relaxed_records[i].title \notin CF_TITLES
          /\ ~HasActionParam(relaxed_records[i].thread_url) /\ scores[i] = 5
    /\ \E i \in 1..split_i :
          /\ ~HasActionParam(relaxed_records[i].thread_url) /\ scores[i] = 0
          /\ relaxed_records[i].posts # <<>>

\* The class the claim gives to a score.
ClassOf(sc) ==
    IF sc >= tcfg.keep_threshold THEN "keep"
    ELSE IF sc < tcfg.drop_threshold THEN "drop" ELSE "review"

\* The records among the first n of the relaxed output whose class is cl, in
\* order, as the list cl holds them.
RECURSIVE Placed(_, _)
Placed(n, cl) ==
    IF n = 0 THEN <<>>
    ELSE LET r == relaxed_records[n] IN
         Placed(n - 1, cl) \o
            (IF ClassOf(scores[n]) # cl THEN <<>>
             ELSE IF cl = "drop" THEN <<[r EXCEPT !.posts = <<>>]>> ELSE <<r>>)

\* C19: the three lists of triage_split hold exactly the records handled so
\* far, each in the one list of its class: keep for a score at or above the keep
\* threshold, else drop (posts emptied, the other fields kept) for a score below
\* the drop threshold, else review.
C19_SplitByThresholds ==
    /\ Len(scores) = split_i
    /\ keep = Placed(split_i, "keep")
    /\ review = Placed(split_i, "review")
    /\ drop_meta = Placed(split_i, "drop")
    /\ Len(keep) + Len(review) + Len(drop_meta) = split_i

\* C19 witness: triage_split has returned with a record in each of two lists,
\* one of them a dropped record that had posts; or it ran with the inverted
\* thresholds and kept a record whose score is under the drop threshold.
C19_Witness ==
    /\ tri_pc = "done" /\ split_i = Len(relaxed_records) /\ split_i > 0
    /\ \/ /\ drop_meta # <<>> /\ keep \o review # <<>>
          /\ \E i \in 1..split_i :
                ClassOf(scores[i]) = "drop" /\ relaxed_records[i].posts # <<>>
       \/ /\ tcfg.keep_threshold < tcfg.drop_threshold
          /\ \E i \in 1..split_i :
                scores[i] >= tcfg.keep_threshold /\ scores[i] < tcfg.drop_threshold
          /\ keep # <<>>

(***************************************************************************)
(* run_darkforums_batches.py: main splits the pages 1..MAX_PAGE into       *)
(* chunks of CHUNK pages and crawls each chunk with crawl_one.py, up to    *)
(* three times with the requests engine and then once with playwright.     *)
(* A chunk is <<start, pages>>.  MAX_PAGE and CHUNK are the constants at   *)
(* the head of the script (800 and 200 as shipped); the runs of SpecBatch  *)
(* also take small values for them.  The outcome of a crawl (the return    *)
(* code of the subprocess, or its timeout) is any of ok and not ok.        *)
(***************************************************************************)
DEFAULT_MAX_PAGE == 800
DEFAULT_CHUNK == 200

MaxPageRange == 5
MaxChunkSize == 3

BatchConfigs ==
    {<<DEFAULT_MAX_PAGE, DEFAULT_CHUNK>>} \cup ((1..MaxPageRange) \X (1..MaxChunkSize))

\* (mutant) every chunk has CHUNK pages.
chunk_of_full(start, max_page, chunk) == <<start, chunk>>

\* Line 99: (start, min(CHUNK, MAX_PAGE - start + 1)).
chunk_of(start, max_page, chunk) ==
    <<start, IF chunk < max_page - start + 1 THEN chunk ELSE max_page - start + 1>>

\* The next value of range(1, MAX_PAGE+1, CHUNK) after the chunks built so far.
range_start == 1 + Len(b_chunks) * CHUNK

BatchOnly ==
    UNCHANGED <<fetchVars, parseVars, mainVars, histVars, triageVars, readerVars, engVars>>

\* Lines 98-99: one iteration of the loop that builds the chunks.
ChunkAppend ==
    /\ b_pc = "chunks" /\ range_start < MAX_PAGE + 1
    /\ b_chunks' = Append(b_chunks, chunk_of(range_start, MAX_PAGE, CHUNK))
    /\ UNCHANGED <<b_pc, MAX_PAGE, CHUNK, chunk_i, attempt, b_runs, b_produced>>
    /\ BatchOnly

\* The position after the chunk at index i is done: the next chunk (lines
\* 102-106) or the end of the loop.
AfterChunk(i) ==
    IF i < Len(b_chunks)
    THEN b_pc' = "requests" /\ chunk_i' = i + 1 /\ attempt' = 1
    ELSE b_pc' = "finish" /\ chunk_i' = i /\ attempt' = 0

\* The range is exhausted (line 98); produced = [] (line 101) and the loop over
\* the chunks starts.
ChunksBuilt ==
    /\ b_pc = "chunks" /\ range_start >= MAX_PAGE + 1
    /\ AfterChunk(0)
    /\ UNCHANGED <<MAX_PAGE, CHUNK, b_chunks, b_runs, b_produced>>
    /\ BatchOnly

\* One call of run_crawl (lines 56-82) for the current chunk, as b_runs keeps it:
\* b_runs is the list of the calls of the run, in order.
BatchRun(eng, ok) ==
    [start |-> b_chunks[chunk_i][1], pages |-> b_chunks[chunk_i][2], engine |-> eng, ok |-> ok]

\* (mutant) four attempts with the requests engine.
requests_attempts_four == 3 + 1

\* Line 108: `for attempt in range(1, 4)`.
requests_attempts == 3

\* Lines 108-115 and 124: one attempt with the requests engine.
RequestsAttempt ==
    /\ b_pc = "requests"
    /\ \E ok \in BOOLEAN :
          /\ b_runs' = Append(b_runs, BatchRun("requests", ok))
          /\ IF ok
             THEN /\ b_produced' = Append(b_produced, b_chunks[chunk_i])
                  /\ AfterChunk(chunk_i)
             ELSE /\ IF attempt < requests_attempts
                     THEN attempt' = attempt + 1 /\ UNCHANGED b_pc
                     ELSE attempt' = attempt /\ b_pc' = "playwright"
                  /\ UNCHANGED <<chunk_i, b_produced>>
    /\ UNCHANGED <<MAX_PAGE, CHUNK, b_chunks>>
    /\ BatchOnly

\* (mutant) the loop over the chunks ends when a chunk fails with both engines.
after_both_failed_break == "break"

\* Line 122: `continue`.
after_both_failed == "continue"

\* Lines 117-124: the one attempt with playwright; a chunk that fails here too is
\* left out of produced and the loop goes on.
Escalate ==
    /\ b_pc = "playwright"
    /\ \E ok \in BOOLEAN :
          /\ b_runs' = Append(b_runs, BatchRun("playwright", ok))
          /\ b_produced' = IF ok THEN Append(b_produced, b_chunks[chunk_i]) ELSE b_produced
          /\ IF ok \/ after_both_failed = "continue"
             THEN AfterChunk(chunk_i)
             ELSE b_pc' = "finish" /\ UNCHANGED <<chunk_i, attempt>>
    /\ UNCHANGED <<MAX_PAGE, CHUNK, b_chunks>>
    /\ BatchOnly

\* Line 128: what main prints last, `[INFO] finished {len(produced)} batches`;
\* produced is not written anywhere and is gone when main returns.
final_output == [finished |-> Len(b_produced)]

\* Line 128.
BatchEnd ==
    /\ b_pc = "finish"
    /\ b_pc' = "done"
    /\ UNCHANGED <<MAX_PAGE, CHUNK, b_chunks, chunk_i, attempt, b_runs, b_produced>>
    /\ BatchOnly

InitBatch ==
    /\ b_pc = "chunks"
    /\ \E cfg \in BatchConfigs : MAX_PAGE = cfg[1] /\ CHUNK = cfg[2]
    /\ b_chunks = <<>> /\ chunk_i = 0 /\ attempt = 0 /\ b_runs = <<>> /\ b_produced = <<>>

InitBatchRun ==
    InitBatch /\ InitFetchIdle /\ InitParseIdle /\ InitMainIdle /\ InitTriageIdle
        /\ InitReadersIdle

NextBatch ==
    \/ ChunkAppend
    \/ ChunksBuilt
    \/ RequestsAttempt
    \/ Escalate
    \/ BatchEnd

SpecBatch == InitBatchRun /\ [][NextBatch]_vars

\* Every step of the runner ends: run_crawl waits for the subprocess at most
\* pages*TIMEOUT_SEC seconds (line 76) and the sleeps are bounded.
SpecBatchLive == InitBatchRun /\ [][NextBatch]_vars /\ WF_vars(NextBatch)

(***************************************************************************)
(* Claims about the batch runner (under SpecBatch).                        *)
(***************************************************************************)
ChunkPages(c) == c[1]..(c[1] + c[2] - 1)

ChunksComplete == b_pc \in {"requests", "playwright", "finish", "done"}

\* C20: the chunks follow one another from page 1, each of CHUNK pages but the
\* last one, which may be shorter; once the list is built, every page of
\* 1..MAX_PAGE is in exactly one chunk and no chunk holds any other page; with
\* MAX_PAGE = 800 and CHUNK = 200 the list is the 4 chunks that start at pages
\* 1, 201, 401 and 601.
C20_ChunksPartitionPages ==
    /\ b_chunks # <<>> => b_chunks[1][1] = 1
    /\ \A k \in DOMAIN b_chunks :
          /\ k < Len(b_chunks) => /\ b_chunks[k][2] = CHUNK
                                  /\ b_chunks[k + 1][1] = b_chunks[k][1] + b_chunks[k][2]
          /\ b_chunks[k][2] >= 1 /\ b_chunks[k][2] <= CHUNK
          /\ ChunkPages(b_chunks[k]) \subseteq 1..MAX_PAGE
    /\ ChunksComplete =>
          /\ \A pg \in 1..MAX_PAGE :
                Cardinality({k \in DOMAIN b_chunks : pg \in ChunkPages(b_chunks[k])}) = 1
          /\ (MAX_PAGE = 800 /\ CHUNK = 200) =>
                [k \in DOMAIN b_chunks |-> b_chunks[k][1]] = <<1, 201, 401, 601>>

\* C20 witness: the runner with MAX_PAGE = 800 and CHUNK = 200 has built its
\* four chunks and gone through all of them.
C20_Witness ==
    /\ b_pc = "done" /\ MAX_PAGE = 800 /\ CHUNK = 200
    /\ Len(b_chunks) = 4 /\ b_chunks[4] = <<601, 200>>

\* The calls of run_crawl for the chunk at index k, in order.
ChunkRuns(k) == SelectSeq(b_runs, LAMBDA r : r.start = b_chunks[k][1])

RunsOf(k, eng) == SelectSeq(ChunkRuns(k), LAMBDA r : r.engine = eng)

\* The loop of main is past the chunk at index k.
ChunkDone(k) == k < chunk_i \/ b_pc \in {"finish", "done"}

\* C21: for every chunk, at most 3 runs with the requests engine, none of them
\* after a successful run; the runs with playwright come after all the requests
\* runs of the chunk, there is at most one, and there is one only after 3 failed
\* requests runs; once the chunk is done there is one exactly when the 3
\* requests runs have all failed; no chunk has more than 4 runs.
C21_AttemptsPerChunk ==
    \A k \in DOMAIN b_chunks :
        LET runs == ChunkRuns(k)
            req  == RunsOf(k, "requests")
            pw   == RunsOf(k, "playwright")
            AllThreeFailed == Len(req) = 3 /\ \A i \in DOMAIN req : ~req[i].ok
        IN  /\ Len(req) <= 3 /\ Len(pw) <= 1 /\ Len(runs) <= 4
            /\ \A i \in DOMAIN runs : (runs[i].ok => i = Len(runs))
            /\ \A i \in DOMAIN runs : \A j \in DOMAIN runs :
                  (runs[i].engine = "playwright" /\ runs[j].engine = "requests") => j < i
            /\ Len(pw) = 1 => AllThreeFailed
            /\ ChunkDone(k) => (Len(pw) = 1 <=> AllThreeFailed)
            /\ ChunkDone(k) => Len(runs) >= 1

\* C21 witness: the run is over; one chunk took 3 failed requests runs and a
\* playwright run, another one succeeded at its second requests run.
C21_Witness ==
    /\ b_pc = "done"
    /\ \E k \in DOMAIN b_chunks :
          /\ Len(ChunkRuns(k)) = 4 /\ ChunkRuns(k)[4].engine = "playwright"
          /\ Len(RunsOf(k, "requests")) = 3
    /\ \E k \in DOMAIN b_chunks :
          /\ Len(ChunkRuns(k)) = 2 /\ ChunkRuns(k)[2].ok
          /\ ChunkRuns(k)[2].engine = "requests"

\* The chunk at index k had a successful run.
Succeeded(k) == \E i \in DOMAIN ChunkRuns(k) : ChunkRuns(k)[i].ok

\* The chunks among the first n that had a successful run, in order.
RECURSIVE SucceededChunks(_)
SucceededChunks(n) ==
    IF n = 0 THEN <<>>
    ELSE SucceededChunks(n - 1) \o (IF Succeeded(n) THEN <<b_chunks[n]>> ELSE <<>>)

\* The runs go through the chunks in order, produced holds exactly the chunks
\* that had a successful run, and at the end every chunk has been run.
C22_EveryChunkAttempted ==
    /\ \A i \in DOMAIN b_runs : \A j \in DOMAIN b_runs :
          i < j => b_runs[i].start <= b_runs[j].start
    /\ \A i \in DOMAIN b_runs : \E k \in DOMAIN b_chunks : b_runs[i].start = b_chunks[k][1]
    /\ b_produced = SucceededChunks(Len(b_chunks))
    /\ \A k \in DOMAIN b_chunks : ChunkDone(k) => ChunkRuns(k) # <<>>
    /\ b_pc = "done" => \A k \in DOMAIN b_chunks : ChunkDone(k)

\* C22: no global abort.  Always: the runs go through the chunks in order and
\* produced is exactly the list of the chunks with a successful run; and the
\* runner terminates, every chunk having been run, also after a chunk that
\* failed with both engines.
C22_NoGlobalAbort == [](C22_EveryChunkAttempted) /\ <>(b_pc = "done")

\* C22 witness: MAX_PAGE = 800, CHUNK = 200, the run is over, the third chunk
\* failed with both engines and produced is the chunks 1, 2 and 4.
C22_Witness ==
    /\ b_pc = "done" /\ MAX_PAGE = 800 /\ CHUNK = 200
    /\ Len(ChunkRuns(3)) = 4 /\ ~Succeeded(3)
    /\ b_produced = <<b_chunks[1], b_chunks[2], b_chunks[4]>>
    /\ ChunkRuns(4) # <<>>

(***************************************************************************)
(* One run_crawl of the batch runner: crawl_one.py as a subprocess, without*)
(* --download-attachments, which run_crawl waits for at most               *)
(* pages*TIMEOUT_SEC seconds (line 76).  When the time is up               *)
(* subprocess.run kills the child wherever it stands and run_crawl returns *)
(* False (lines 80-82).  The crawl_one.py the runner starts                *)
(* (crawler/src/crawler/src) has the crawl_forum and the main of the model *)
(* without the quarantine pass.                                            *)
(***************************************************************************)
RunTimeout ==
    /\ m_pc \in {"forums", "list", "links", "thread_sleep"}
    /\ m_pc' = "killed"
    /\ UNCHANGED <<args, forum_i, all_records, seed_i, next_url, page, link_nodes, page_next,
                   seen_on_page, visited_threads, results, jsonl>>
    /\ UNCHANGED histVars
    /\ QuarantineIdle /\ MainOnly

InitChunkRun == Init /\ ~args.download_attachments

NextChunkRun ==
    \/ ForumStart
    \/ ListFetch
    \/ LinkStep
    \/ ThreadSleep
    \/ PageEnd
    \/ Save
    \/ RunTimeout

SpecChunkRun == InitChunkRun /\ [][NextChunkRun]_vars

\* C23 (as claimed): when the attempt has failed, every record it produced is
\* in the log.
C23_PartialProgressPersisted ==
    m_pc = "killed" => \A r \in produced : r \in Range(jsonl)

\* What holds instead: an attempt that was stopped has written nothing.
C23_NothingWrittenBeforeEnd ==
    m_pc # "saved" => jsonl = <<>>

\* The ways to split the chunks into succeeded and failed that agree with the
\* final output of the run.
OutcomesMatching(out) ==
    {ok_set \in SUBSET (DOMAIN b_chunks) : Cardinality(ok_set) = out.finished}

\* C24 (as claimed): when the runner has terminated, its final output tells for
\* every chunk whether it succeeded or failed: one outcome only agrees with it,
\* the one of the run.
C24_FinalOutputIdentifiesChunks ==
    b_pc = "done" =>
        OutcomesMatching(final_output) = {{k \in DOMAIN b_chunks : Succeeded(k)}}

\* What holds instead: the final output is the number of the chunks that
\* succeeded.
C24_FinalOutputCountsSuccesses ==
    b_pc = "done" =>
        final_output.finished = Cardinality({k \in DOMAIN b_chunks : Succeeded(k)})

(***************************************************************************)
(* backend/alert/alert_system/core.py.  Every request to /stream_alerts    *)
(* (bp.py line 30) starts one generator process_data_and_stream; the       *)
(* server runs the generators of the open streams side by side and a       *)
(* generator stands still at its yield until the server takes the next     *)
(* event; when the client is gone the server closes the generator there.   *)
(* create_github_issue is not part of the sources: a call is recorded with *)
(* the item it got, and whatever it raises is swallowed (lines 141-144).   *)
(* The date and the memo of an item are left out.                          *)
(***************************************************************************)
MaxOpens == 3

DbLeakWords == {"leak", "database"}
SpamWords == {"telegram"}

\* Lines 66-79, for the categories the texts of the model can fall in: the
\* first category with a keyword in the text.
classify_content(text) ==
    IF \E i \in DOMAIN text : Lower(text[i]) \in DbLeakWords THEN "db_leak"
    ELSE IF \E i \in DOMAIN text : Lower(text[i]) \in SpamWords THEN "spam"
    ELSE "general"

\* Lines 100-104.
risk_of(leaked_type) ==
    IF leaked_type \in {"db_leak", "documents", "exploit", "malware"} THEN "Critical"
    ELSE IF leaked_type \in {"spam", "fraud"} THEN "Warning"
    ELSE "Informational"

\* Lines 95-121: the item of one post of a thread.
clean_item(thread, post) ==
    [id           |-> sha256(post.post_url),
     account      |-> post.author,
     host         |-> thread.source,
     leaked_data  |-> classify_content(thread.title[1] \o <<" ">> \o ContentOf(post)),
     risk_level   |-> risk_of(classify_content(thread.title[1] \o <<" ">> \o ContentOf(post))),
     raw_content  |-> ContentOf(post),
     thread_hash  |-> thread.thread_hash,
     thread_title |-> thread.title[1]]

\* Lines 90-121 for the parsed lines: the items of all posts, in order.
RECURSIVE clean_items(_)
clean_items(threads) ==
    IF threads = <<>> THEN <<>>
    ELSE [i \in DOMAIN Head(threads).posts |-> clean_item(Head(threads), Head(threads).posts[i])]
            \o clean_items(Tail(threads))

\* Line 87: [json.loads(line) for line in f if line.strip()].  A line that is
\* not JSON makes json.loads raise JSONDecodeError, which leaves the
\* comprehension.
NonBlank(lines) == SelectSeq(lines, LAMBDA l : l.kind # "blank")
raw_threads_of(lines) ==
    IF \E i \in DOMAIN lines : lines[i].kind = "bad"
    THEN [err |-> "JSONDecodeError", threads |-> <<>>]
    ELSE [err |-> "none", threads |-> [i \in DOMAIN NonBlank(lines) |-> NonBlank(lines)[i].obj]]

\* Lines 82-125 for the one file of RAW_DATA_JSONL_FILES, which exists: only
\* FileNotFoundError is caught (line 122), any other exception leaves the
\* function.  A title that is null has no lower() (line 92).
load_and_analyze_data(lines) ==
    LET raw == raw_threads_of(lines) IN
    IF raw.err # "none" THEN [err |-> raw.err, clean_data |-> <<>>]
    ELSE IF \E i \in DOMAIN raw.threads : raw.threads[i].title = <<>>
    THEN [err |-> "AttributeError", clean_data |-> <<>>]
    ELSE [err |-> "none", clean_data |-> clean_items(raw.threads)]

\* Lines 26-30.
get_processed_ids(file) == Range(file)

AlertOnly ==
    UNCHANGED <<fetchVars, parseVars, mainVars, histVars, triageVars, batchVars,
                qd_pc, qd_in, qd_i, qd_out, engVars>>

\* A request to /stream_alerts: the generator starts and reads
\* processed_ids.log (line 134).
StreamOpen(st) ==
    /\ a_streams[st].pc \in {"closed", "error"} /\ a_opens < MaxOpens
    /\ a_opens' = a_opens + 1
    /\ a_streams' = [a_streams EXCEPT ![st] =
                        [ClosedStream EXCEPT !.pc = "load",
                                             !.processed_ids = get_processed_ids(a_file)]]
    /\ UNCHANGED <<a_raw, a_file, a_issues>>
    /\ AlertOnly

\* Lines 136-137: the head of the while loop.
StreamLoad(st) ==
    /\ a_streams[st].pc = "load"
    /\ LET res == load_and_analyze_data(a_raw) IN
       a_streams' = [a_streams EXCEPT ![st] =
                        IF res.err # "none"
                        THEN [@ EXCEPT !.pc = "error", !.items = <<>>, !.i = 0]
                        ELSE [@ EXCEPT !.pc = "items", !.items = res.clean_data, !.i = 0,
                                       !.new_found = FALSE]]
    /\ UNCHANGED <<a_raw, a_file, a_issues, a_opens>>
    /\ AlertOnly

\* Lines 138-145: the next item, up to the yield for an item whose id is not
\* in processed_ids.
StreamItem(st) ==
    /\ a_streams[st].pc = "items" /\ a_streams[st].i < Len(a_streams[st].items)
    /\ LET item == a_streams[st].items[a_streams[st].i + 1] IN
       IF item.id \notin a_streams[st].processed_ids
       THEN /\ a_issues' = Append(a_issues, item)
            /\ a_streams' = [a_streams EXCEPT ![st] = [@ EXCEPT !.pc = "yielded",
                                                                !.new_found = TRUE]]
       ELSE /\ a_streams' = [a_streams EXCEPT ![st] = [@ EXCEPT !.i = @ + 1]]
            /\ UNCHANGED a_issues
    /\ UNCHANGED <<a_raw, a_file, a_opens>>
    /\ AlertOnly

\* Lines 146-147: the server took the event; mark_id_as_processed appends the
\* id to processed_ids.log (lines 32-34).
StreamResume(st) ==
    /\ a_streams[st].pc = "yielded"
    /\ LET item == a_streams[st].items[a_streams[st].i + 1] IN
       /\ a_file' = Append(a_file, item.id)
       /\ a_streams' = [a_streams EXCEPT ![st] =
                           [@ EXCEPT !.pc = "items", !.i = @ + 1,
                                     !.processed_ids = @ \cup {item.id}]]
    /\ UNCHANGED <<a_raw, a_issues, a_opens>>
    /\ AlertOnly

\* The client of the stream is gone: the generator is closed at its yield
\* (line 145) and lines 146-147 are not run.
StreamDisconnect(st) ==
    /\ a_streams[st].pc = "yielded"
    /\ a_streams' = [a_streams EXCEPT ![st] = ClosedStream]
    /\ UNCHANGED <<a_raw, a_file, a_issues, a_opens>>
    /\ AlertOnly

\* Lines 148-149 and back to line 135: after the last item, sleep when nothing
\* was new, then the next round.
StreamRound(st) ==
    /\ a_streams[st].pc = "items" /\ a_streams[st].i = Len(a_streams[st].items)
    /\ a_streams' = [a_streams EXCEPT ![st] = [@ EXCEPT !.pc = "load"]]
    /\ UNCHANGED <<a_raw, a_file, a_issues, a_opens>>
    /\ AlertOnly

\* ---- the raw data files of the model
C_leak == <<"w", " ", "leak">>
AlertPost(url, content) == [post_url |-> url, content |-> <<content>>, author |-> <<"u">>]

\* A thread whose post has a permalink, a thread whose two posts have none (the
\* crawler then gives them the thread URL as post_url, crawl_one.py line 284),
\* a thread without a title, a blank line and a line that is not JSON.
AlertLines ==
    {JsonLine(T_a, Title_t, <<AlertPost(<<"h", "/Thread-a", "?pid=1">>, C_leak)>>, TRUE),
     JsonLine(T_x, Title_t, <<AlertPost(T_x, C_mid), AlertPost(T_x, C_short)>>, TRUE),
     JsonLine(T_leak, <<>>, <<AlertPost(T_leak, C_short)>>, TRUE),
     OtherLine("blank"), OtherLine("bad")}

AlertLogs == UNION {[1..n -> AlertLines] : n \in 0..MaxLines}

InitAlert ==
    /\ a_raw \in AlertLogs
    /\ a_file = <<>> /\ a_streams = [st \in Streams |-> ClosedStream]
    /\ a_issues = <<>> /\ a_opens = 0

InitAlertRun ==
    InitAlert /\ InitFetchIdle /\ InitParseIdle /\ InitMainIdle /\ InitTriageIdle
        /\ InitBatchIdle /\ InitDetectIdle /\ InitEnginesIdle

NextAlert ==
    \/ \E st \in Streams : StreamOpen(st)
    \/ \E st \in Streams : StreamLoad(st)
    \/ \E st \in Streams : StreamItem(st)
    \/ \E st \in Streams : StreamResume(st)
    \/ \E st \in Streams : StreamDisconnect(st)
    \/ \E st \in Streams : StreamRound(st)

SpecAlert == InitAlertRun /\ [][NextAlert]_vars

(***************************************************************************)
(* Claims about the alert streams (under SpecAlert).                       *)
(***************************************************************************)
\* The content-level identity of an item: its thread and its content.
ContentIdentity(item) == <<item.thread_hash, item.raw_content>>

CallsFor(cid) == SelectSeq(a_issues, LAMBDA item : ContentIdentity(item) = cid)

\* C25 (as claimed, the part about calls made): create_github_issue has been
\* called at most once for each post, whatever the streams did.
C25_HookOncePerRecord ==
    \A k \in DOMAIN a_issues : Len(CallsFor(ContentIdentity(a_issues[k]))) = 1

\* C25 (as claimed, the part about calls due): a stream that has gone through
\* all items of the file has left no post of the file without a call.
C25_HookForEveryRecord ==
    \A st \in Streams :
        (a_streams[st].pc = "items" /\ a_streams[st].i = Len(a_streams[st].items)) =>
            \A k \in DOMAIN a_streams[st].items :
                CallsFor(ContentIdentity(a_streams[st].items[k])) # <<>>

\* What holds instead: one generator calls the hook at most once for an id
\* (the hash of post_url) as long as it lives.
C25_OncePerIdPerStream ==
    \A st \in Streams :
        a_streams[st].pc = "yielded" =>
            a_streams[st].items[a_streams[st].i + 1].id \notin a_streams[st].processed_ids

(***************************************************************************)
(* connect/crawler/quick_detect.py: run_file reads the crawler's log line  *)
(* by line and writes one evaluation per thread.  In the texts of the      *)
(* model a keyword of RULE and a string that one of RULE["re"] matches is  *)
(* one token; evaluated_at is left out.                                    *)
(***************************************************************************)
KW_HIGH == {"ransomware", "full dump"}
KW_MED == {"vpn"}
STOP == {"giveaway"}
IocTokens == [email |-> {"a@b.co"}, domain |-> {"a@b.co", "b.co"}]

W_HIGH == 2
W_MED == 1
W_IOC == 2
TH_ALERT == 5
TH_REVIEW == 3

TokensOf(text) == {Lower(text[i]) : i \in DOMAIN text}

\* Lines 18-29.
score_text(txt) ==
    LET t == TokensOf(txt)
        iocs == {k \in DOMAIN IocTokens : IocTokens[k] \cap t # {}}
    IN  IF t \cap STOP # {} THEN [score |-> 0, iocs |-> {}]
        ELSE [score |-> Cardinality(t \cap KW_HIGH) * W_HIGH + Cardinality(t \cap KW_MED) * W_MED
                          + (IF iocs # {} THEN W_IOC ELSE 0),
              iocs  |-> iocs]

\* Lines 48-52.
level_of(sc) == IF sc >= TH_ALERT THEN "alert" ELSE IF sc >= TH_REVIEW THEN "review" ELSE "none"

\* Lines 42-44: the title, a newline and the contents of the posts.
detect_text(t) ==
    (IF t.title = <<>> THEN <<>> ELSE t.title[1]) \o <<"\n">>
        \o join_sp([i \in DOMAIN t.posts |-> ContentOf(t.posts[i])])

\* Lines 59-63: the line written for thread t.
detect_record(t) ==
    [level |-> level_of(score_text(detect_text(t)).score),
     score |-> score_text(detect_text(t)).score,
     title |-> t.title, thread_url |-> t.thread_url,
     matched |-> score_text(detect_text(t)).iocs, source |-> t.source]

\* Line 40: json.loads(line) is in no try: JSONDecodeError leaves run_file.
on_bad_line == "JSONDecodeError"

DetectOnly ==
    UNCHANGED <<fetchVars, parseVars, mainVars, histVars, triageVars, batchVars,
                a_raw, a_file, a_streams, a_issues, a_opens, engVars>>

\* Lines 37-63: one iteration of `for line in f`.
DetectLine ==
    /\ qd_pc = "run" /\ qd_i < Len(qd_in)
    /\ qd_i' = qd_i + 1
    /\ LET line == qd_in[qd_i + 1] IN
       IF line.kind = "blank" THEN UNCHANGED <<qd_pc, qd_out>>
       ELSE IF line.kind = "bad" THEN qd_pc' = on_bad_line /\ UNCHANGED qd_out
       ELSE qd_out' = Append(qd_out, detect_record(line.obj)) /\ UNCHANGED qd_pc
    /\ UNCHANGED qd_in
    /\ DetectOnly

\* Lines 65-66: the end of the file; the counts are printed.
DetectEnd ==
    /\ qd_pc = "run" /\ qd_i = Len(qd_in)
    /\ qd_pc' = "done"
    /\ UNCHANGED <<qd_in, qd_i, qd_out>>
    /\ DetectOnly

C_ransom == <<"ransomware", " ", "full dump", " ", "a@b.co">>
C_vpn == <<"vpn", " ", "ransomware">>
C_give == <<"giveaway", " ", "ransomware", " ", "full dump", " ", "b.co">>

DetectLines ==
    {JsonLine(T_a, Title_t, <<AlertPost(T_a, C_ransom)>>, TRUE),
     JsonLine(T_x, Title_t, <<AlertPost(T_x, C_vpn), AlertPost(T_x, C_short)>>, TRUE),
     JsonLine(T_leak, <<>>, <<AlertPost(T_leak, C_give)>>, TRUE),
     JsonLine(T_x_p2, Title_t, <<>>, TRUE),
     OtherLine("blank"), OtherLine("bad")}

DetectLogs == UNION {[1..n -> DetectLines] : n \in 0..MaxLines}

InitDetect ==
    /\ qd_pc = "run" /\ qd_in \in DetectLogs /\ qd_i = 0 /\ qd_out = <<>>

InitDetectRun ==
    InitDetect /\ InitFetchIdle /\ InitParseIdle /\ InitMainIdle /\ InitTriageIdle
        /\ InitBatchIdle /\ InitAlertIdle /\ InitEnginesIdle

NextDetect ==
    \/ DetectLine
    \/ DetectEnd

SpecDetect == InitDetectRun /\ [][NextDetect]_vars

(***************************************************************************)
(* Claims about the readers of the log.                                    *)
(***************************************************************************)
WellFormed(lines) == SelectSeq(lines, LAMBDA l : l.kind = "json")

\* C26 (as claimed, for run_file; under SpecDetect): when run_file is over,
\* with or without an error, it has written the evaluation of every
\* well-formed line of its input.
C26_ReadersSkipMalformed ==
    qd_pc \in {"done", "JSONDecodeError"} =>
        qd_out = [i \in DOMAIN WellFormed(qd_in) |-> detect_record(WellFormed(qd_in)[i].obj)]

\* C26 (as claimed, for load_and_analyze_data; under SpecAlert): a stream that
\* has loaded a file whose threads all have a title has the items of every
\* well-formed line.
C26_LoaderSkipsMalformed ==
    \A st \in Streams :
        (/\ a_streams[st].pc \in {"items", "yielded", "error"}
         /\ \A i \in DOMAIN a_raw : a_raw[i].kind = "json" => a_raw[i].obj.title # <<>>)
        => a_streams[st].items
              = clean_items([i \in DOMAIN WellFormed(a_raw) |-> WellFormed(a_raw)[i].obj])

\* The part of C26 that holds (under SpecTriage): filter_records goes through
\* the whole log; every well-formed line whose URL the relaxed pass does not
\* exclude has its thread key in the relaxed output.
C26_FilterSkipsMalformed ==
    /\ tri_pc \in {"triage", "done"} =>
          \A i \in DOMAIN tlog :
              (IsRecordLine(i)
                 /\ ~exclude_url(tlog[i].obj.thread_url, RELAXED_EXCLUDE_URL_PATTERNS))
              => \E k \in DOMAIN relaxed_records : relaxed_records[k].thread_hash = PairKey(i)
    /\ \A k \in DOMAIN out_lines : IsRecordLine(out_lines[k])

\* What holds for run_file: it has written the evaluations of the well-formed
\* lines before the first line that is not JSON, and no others.
C26_DetectStopsAtMalformed ==
    LET seen == SubSeq(qd_in, 1, qd_i) IN
    /\ qd_out = [i \in DOMAIN WellFormed(seen) |-> detect_record(WellFormed(seen)[i].obj)]
    /\ qd_pc = "JSONDecodeError" => qd_in[qd_i].kind = "bad"
    /\ qd_pc = "done" => (qd_i = Len(qd_in) /\ \A i \in DOMAIN qd_in : qd_in[i].kind # "bad")

(***************************************************************************)
(* Claims about the attachments _parse_thread records (under SpecParse).   *)
(***************************************************************************)
\* The absolute URL of the link of an attachment block, if it has one.
AttachmentLinkOf(a, thread_url) ==
    IF Select(a, "a") # <<>> /\ Select(a, "a")[1].href # <<>>
    THEN urljoin(thread_url, Select(a, "a")[1].href[1]) ELSE NoURL

PostContainers == _pick_many(p_doc, Profile.post_container)

AttachmentBlocks(k) == _pick_many(PostContainers[k].select, Profile.attachment_block)

\* C27 (as claimed): in every record _parse_thread returned, each attachment
\* block of a post whose link matches the attachment-url heuristic is in the
\* attachments of that post, with its absolute URL.
C27_MatchingAttachmentRecorded ==
    \A r \in DOMAIN p_runs : \A k \in DOMAIN PostContainers :
        \A b \in DOMAIN AttachmentBlocks(k) :
            LET u == AttachmentLinkOf(AttachmentBlocks(k)[b].select, p_url) IN
            (u # NoURL /\ is_attachment_url(u)) =>
                \E j \in DOMAIN p_runs[r].posts[k].attachments :
                    p_runs[r].posts[k].attachments[j].attachment_url = u

\* What holds instead: no recorded attachment has a URL that matches the
\* heuristic, and every linked block whose URL does not match is recorded.
C27_OnlyNonMatchingRecorded ==
    \A r \in DOMAIN p_runs : \A k \in DOMAIN PostContainers :
        /\ \A j \in DOMAIN p_runs[r].posts[k].attachments :
              ~is_attachment_url(p_runs[r].posts[k].attachments[j].attachment_url)
        /\ \A b \in DOMAIN AttachmentBlocks(k) :
              LET u == AttachmentLinkOf(AttachmentBlocks(k)[b].select, p_url) IN
              (u # NoURL /\ ~is_attachment_url(u)) =>
                  \E j \in DOMAIN p_runs[r].posts[k].attachments :
                      p_runs[r].posts[k].attachments[j].attachment_url = u


(***************************************************************************)
(* The relational mirror (crawl_one.py save_sqlite, lines 383-448, called  *)
(* by main at lines 596-598 when --out-sqlite is given).  The mirror is    *)
(* the committed rows of its two tables; a row of posts carries the id     *)
(* AUTOINCREMENT gave it, a row of attachments the id of its post.         *)
(***************************************************************************)
\* Lines 416-431: the row of one post of a record.
post_row(rec, p, id) ==
    [id |-> id, source |-> rec.source, thread_url |-> rec.thread_url, post_url |-> p.post_url,
     title |-> rec.title, author |-> p.author, posted_at |-> p.posted_at,
     content |-> p.content, fetched_at |-> rec.fetched_at]

\* Lines 433-445: the rows of the attachments of the post with id pid.
attachment_rows(p, pid) ==
    [j \in DOMAIN p.attachments |->
        [post_id |-> pid, display_filename |-> p.attachments[j].display_filename,
         display_size |-> p.attachments[j].display_size,
         attachment_url |-> p.attachments[j].attachment_url]]

\* Lines 410-445: the loops over records and their posts, on the tables db.
RECURSIVE insert_posts(_, _, _)
insert_posts(rec, posts, db) ==
    IF posts = <<>> THEN db
    ELSE LET pid == Len(db.posts) + 1 IN
         insert_posts(rec, Tail(posts),
                      [posts |-> Append(db.posts, post_row(rec, Head(posts), pid)),
                       attachments |-> db.attachments \o attachment_rows(Head(posts), pid)])

RECURSIVE insert_records(_, _)
insert_records(records, db) ==
    IF records = <<>> THEN db
    ELSE insert_records(Tail(records), insert_posts(Head(records), Head(records).posts, db))

\* save_sqlite when every statement succeeds: what conn.commit() (line 446) commits.
save_sqlite(records, db) == insert_records(records, db)

\* What a call of save_sqlite can come to: it commits; sqlite3 could not be
\* imported and the call returns at once (lines 384-386); or connect, mkdir or
\* execute raises, nothing is committed and nothing catches the exception,
\* neither in save_sqlite nor around the call at line 598.
SqliteOutcomes == {"committed", "unavailable", "raised"}

\* Lines 596-598: main after save_jsonl, when --out-sqlite is given.
SaveSqlite ==
    /\ m_pc = "saved" /\ args.out_sqlite
    /\ \E o \in SqliteOutcomes :
          /\ sqlite_db' = IF o = "committed" THEN save_sqlite(all_records, sqlite_db)
                          ELSE sqlite_db
          /\ m_pc' = IF o = "raised" THEN "sqlite3.Error" ELSE "mirrored"
    /\ UNCHANGED <<args, forum_i, all_records, seed_i, next_url, page, link_nodes, page_next,
                   seen_on_page, visited_threads, results, jsonl>>
    /\ UNCHANGED histVars /\ UNCHANGED zipVars
    /\ QuarantineIdle /\ OthersIdle

\* A run with --out-sqlite.
InitMirror == InitMain /\ args.out_sqlite /\ InitFetchIdle /\ InitParseIdle /\ InitOthersIdle

NextMirror ==
    \/ ForumStart
    \/ ListFetch
    \/ LinkStep
    \/ ThreadSleep
    \/ PageEnd
    \/ Save
    \/ SaveSqlite
    \/ QuarantineStart
    \/ QuarantineRecord
    \/ QuarantineDownload
    \/ QuarantineManifest

SpecMirror == InitMirror /\ [][NextMirror]_vars

\* C28 (as claimed): a failure while writing the mirror is not fatal: when
\* save_sqlite is called, the JSONL log holds every record of the run and the
\* run goes on to the steps after the mirror instead of aborting.
C28_MirrorFailureNonFatal ==
    [][(m_pc = "saved" /\ args.out_sqlite) =>
          (jsonl = all_records /\ jsonl' = jsonl /\ m_pc' = "mirrored")]_vars

\* What holds of the primary log: from save_jsonl on, whatever save_sqlite comes
\* to, the JSONL log holds every record of the run.
C28_PrimaryLogComplete ==
    m_pc \in {"saved", "mirrored", "sqlite3.Error"} => jsonl = all_records

\* What holds of the run: the exception of save_sqlite ends it, with nothing
\* committed to the mirror and the quarantine pass never begun.
C28_MirrorFailureAborts ==
    /\ m_pc = "sqlite3.Error" =>
          sqlite_db = NoDb /\ q_rec = 0 /\ manifests = {} /\ dl_requests = {}
    /\ m_pc = "mirrored" => sqlite_db \in {NoDb, save_sqlite(all_records, NoDb)}


(***************************************************************************)
(* The quarantine pass of a run of crawl_one.py (lines 600-651).           *)
(***************************************************************************)
\* Lines 619-621: the folder of a thread under the quarantine base.
ThreadDir(rec) == <<sanitize_source(rec.source), rec.thread_hash>>

\* The process has left main: it returned, or an exception left it.
Exited == m_pc \in {"done", "NameError", "sqlite3.Error"}

\* The folder of rec holds a manifest.json of a thread of that folder.  (Threads
\* with equal title and content have one thread_hash and so one folder, and
\* line 639 overwrites: the folder holds the manifest of the last of them.)
HasManifest(rec) ==
    \E m \in manifests :
        /\ m.dir = ThreadDir(rec)
        /\ DOMAIN m = {"dir", "thread_url", "downloaded"}
        /\ \E j \in DOMAIN all_records :
              ThreadDir(all_records[j]) = m.dir /\ m.thread_url = all_records[j].thread_url

\* C29 (as claimed): when a run with --download-attachments has exited, the
\* folder of every thread that has at least one attachment URL holds a
\* manifest.json of the form {thread_url, downloaded}.
C29_ManifestInEveryThreadFolder ==
    (Exited /\ args.download_attachments) =>
        \A i \in DOMAIN all_records :
            att_urls_of_posts(all_records[i].posts) # <<>> => HasManifest(all_records[i])

\* What holds when the file runs as a script: the pass ends at its first call of
\* a function of the downloader section (line 605), with the JSONL log written
\* and no request made, no file saved and no manifest written.
C29_ScriptRunEndsBeforePass ==
    m_pc = "NameError" =>
        /\ jsonl = all_records
        /\ q_rec = 0 /\ manifests = {} /\ quarantine = {} /\ dl_requests = {}

\* What holds when main is called with the downloader section bound: a pass that
\* ran to its end has written the manifest of every thread with an attachment URL.
C29_ManifestsWhenPassCompletes ==
    (m_pc = "done" /\ args.download_attachments) =>
        \A i \in DOMAIN all_records :
            att_urls_of_posts(all_records[i].posts) # <<>> => HasManifest(all_records[i])


(***************************************************************************)
(* The HTTP resources of the quarantine pass: the session of line 605 and  *)
(* the responses of line 707.                                              *)
(***************************************************************************)
\* C30 (as claimed): every response stream_download received is closed when the
\* call returns, on the paths where the download raises as well, and the session
\* of the pass is closed when the run has exited.
C30_EverythingClosed ==
    /\ dl_open = {}
    /\ Exited => dl_session # "open"

\* What holds of the responses: a response is left open only by a call whose
\* body broke off with an exception after session.get had returned; every other
\* path of stream_download closes it.
C30_OpenOnlyAfterRaise ==
    [][dl_open' # dl_open =>
          /\ dl_open' = dl_open \cup {last_dl'.url}
          /\ last_dl'.ans.kind = "response" /\ last_dl'.ans.ends = "error"
          /\ ~last_dl'.saved]_vars

\* What holds of the session: once opened it is never closed, and no response
\* left open is closed later.
C30_SessionNeverClosed ==
    [][/\ dl_session' # "closed"
       /\ dl_session = "open" => dl_session' = "open"
       /\ dl_open \subseteq dl_open']_vars


(***************************************************************************)
(* Archiving a thread's quarantine folder (crawl_one.py lines 641-644 and  *)
(* zip_quarantine_folder, lines 766-791).                                  *)
(***************************************************************************)
ManifestJson == <<"m", "a", "n", "i", "f", "e", "s", "t", ".", "j", "s", "o", "n">>

\* os.walk(folder): the names of the files of the folder tdir.
FolderFiles(tdir) ==
    {f.path[3] : f \in {g \in quarantine : g.path[1] = tdir[1] /\ g.path[2] = tdir[2]}}
        \cup {ManifestJson : m \in {n \in manifests : n.dir = tdir}}

\* What zip_quarantine_folder prints, and what main prints after it.
WarnFallback == "[WARN] pyminizip failed, fallback to plain zip"
OkZipped(tdir) == <<"[OK] Quarantine zipped", tdir>>

\* Line 771: `if password and pyminizip is not None`.
protected_attempted(password, module) == password # NoPassword /\ module # "none"

WriteArchive(tdir, protected) ==
    {a \in archives : a.path # tdir}
        \cup {[path |-> tdir, protected |-> protected, files |-> FolderFiles(tdir)]}

\* Lines 641-644 with zip_quarantine_folder: compress_multiple writes a protected
\* archive, or it raises, the warning of line 782 is printed and the plain
\* archive of lines 785-790 is written; without a password or without the
\* module the plain archive is written at once.
QuarantineZip ==
    /\ m_pc = "zip"
    /\ LET tdir == <<sanitize_source(all_records[q_rec].source), all_records[q_rec].thread_hash>>
       IN  IF protected_attempted(args.zip_password, pyminizip)
           THEN \E compressed \in BOOLEAN :
                   /\ archives' = WriteArchive(tdir, compressed)
                   /\ console' = console
                                   \o (IF compressed THEN <<>> ELSE <<WarnFallback>>)
                                   \o <<OkZipped(tdir)>>
           ELSE /\ archives' = WriteArchive(tdir, FALSE)
                /\ console' = Append(console, OkZipped(tdir))
    /\ m_pc' = "quarantine"
    /\ UNCHANGED <<args, forum_i, all_records, seed_i, next_url, page, link_nodes, page_next,
                   seen_on_page, visited_threads, results, jsonl, sqlite_db, pyminizip>>
    /\ UNCHANGED histVars
    /\ QuarantineIdle /\ OthersIdle

\* A pass with --zip-quarantine.
InitZip ==
    /\ InitQuarantine /\ args.zip_quarantine /\ ~args.dl_same_host
    /\ InitFetchIdle /\ InitParseIdle /\ InitOthersIdle

NextZip ==
    \/ QuarantineStart
    \/ QuarantineRecord
    \/ QuarantineDownload
    \/ QuarantineManifest
    \/ QuarantineZip

SpecZip == InitZip /\ [][NextZip]_vars

\* The archive of the thread the pass is at.
ArchiveAt(tdir, as) == CHOOSE a \in as : a.path = tdir

NoticesIn(msgs, from) == {i \in (from + 1)..Len(msgs) : msgs[i] = WarnFallback}

\* C31 (as claimed): whenever a password was requested and the archive written
\* for a thread is unprotected, that call printed the fallback notice, and the
\* archiving completed.
C31_FallbackReported ==
    [][(m_pc = "zip" /\ args.zip_password # NoPassword) =>
          LET tdir == ThreadDir(all_records[q_rec]) IN
          /\ m_pc' = "quarantine" /\ \E a \in archives' : a.path = tdir
          /\ ~ArchiveAt(tdir, archives').protected =>
                NoticesIn(console', Len(console)) # {}]_vars

\* What holds when the module is there: an unprotected archive made although a
\* password was given is announced by the warning of line 782.
C31_ToolFailureReported ==
    [][(m_pc = "zip" /\ args.zip_password # NoPassword /\ pyminizip = "module") =>
          LET tdir == ThreadDir(all_records[q_rec]) IN
          /\ m_pc' = "quarantine" /\ \E a \in archives' : a.path = tdir
          /\ ~ArchiveAt(tdir, archives').protected <=>
                NoticesIn(console', Len(console)) # {}]_vars

\* What holds when the module is missing: every archive is unprotected, password
\* or not, and nothing but the [OK] lines is printed.
C31_SilentWithoutTool ==
    pyminizip = "none" =>
        /\ \A a \in archives : ~a.protected
        /\ \A i \in DOMAIN console : console[i] # WarnFallback


(***************************************************************************)
(* crawl_forum: threads fetched once, pagination bounded (lines 318-371).  *)
(***************************************************************************)
\* The thread URLs the current crawl_forum run has passed to _parse_thread: those
\* that gave a record and those whose fetch or parse raised.
RunFetched == {results[i].thread_url : i \in DOMAIN results} \cup failed

\* A step of the loop over link_nodes that calls _parse_thread.
ThreadFetchStep == m_pc = "links" /\ m_pc' = "thread_sleep"

\* C32: within one crawl_forum run no thread URL is fetched more than once: a
\* step that calls _parse_thread does so on a URL the run has not fetched
\* before, whether the earlier fetch gave a record or failed, and every URL
\* fetched is in visited_threads.
C32_ThreadFetchedOnce ==
    /\ [](RunFetched \subseteq visited_threads)
    /\ [][ThreadFetchStep =>
             /\ last_link'.url \notin RunFetched
             /\ last_link'.url \notin visited_threads]_vars

\* A link to a thread whose fetch failed on an earlier page or seed of the run
\* has just been skipped.
C32_Witness ==
    /\ m_pc = "links" /\ last_link.what = "skipped"
    /\ last_link.url \in failed
    /\ last_link.url \notin seen_on_page
    /\ ~is_attachment_url(last_link.url)


\* The crawl of a run without the quarantine pass, every step of which is
\* taken in the end: each fetch returns, with a page or with an exception.
NextCrawl ==
    \/ ForumStart
    \/ ListFetch
    \/ LinkStep
    \/ ThreadSleep
    \/ PageEnd
    \/ Save

SpecCrawlLive == InitChunkRun /\ [][NextCrawl]_vars /\ WF_vars(NextCrawl)

InCrawlForum == m_pc \in {"list", "links", "thread_sleep"}

\* The list page fetched is page number `page` of its seed, within the bound.
PageWithinBound == InCrawlForum => (1 <= page /\ page <= args.pages /\ next_url # NoURL)

\* A step to the fetch of a list page: the next page of the same seed, reached
\* through the next-page link of the page just done, or page 1 of a later seed.
PaginationStep ==
    (m_pc' = "list" /\ m_pc # "list" /\ forum_i' = forum_i) =>
        \/ /\ seed_i' = seed_i /\ page' = page + 1
           /\ page_next # <<>> /\ page_next[1].href # <<>>
           /\ next_url' = urljoin(next_url, page_next[1].href[1])
        \/ /\ seed_i' > seed_i /\ page' = 1
           /\ next_url' = Conf[CurrentKey].list_urls[seed_i']

\* What is left of a crawl_forum call: the seeds after this one, the pages the
\* bound still allows, the fetch of the page at hand, its links not yet
\* iterated, the sleep after a thread.
Remaining ==
    <<Len(Conf[CurrentKey].list_urls) - seed_i, args.pages - page,
      IF m_pc = "list" THEN 1 ELSE 0, Len(link_nodes),
      IF m_pc = "thread_sleep" THEN 1 ELSE 0>>

RECURSIVE LexLess(_, _)
LexLess(a, b) ==
    /\ a # <<>>
    /\ \/ Head(a) < Head(b)
       \/ Head(a) = Head(b) /\ LexLess(Tail(a), Tail(b))

\* Every step inside crawl_forum leaves it or leaves strictly less to do, and in
\* crawl_forum there is always a step to take.
CrawlStepDecreases == InCrawlForum => (m_pc' = "forums" \/ LexLess(Remaining', Remaining))

\* C33: for every seed crawl_forum fetches at most max_pages list pages (the
\* pages of a seed are numbered 1, 2, ... up to max_pages), a page without a
\* next-page match ends the pagination of its seed, and a crawl_forum call whose
\* fetches all return comes back to main: each step leaves less to do.
C33_PaginationBoundedAndEnds ==
    /\ [](PageWithinBound /\ (InCrawlForum => \A k \in 1..5 : Remaining[k] >= 0))
    /\ [](InCrawlForum => ENABLED NextCrawl)
    /\ [][PaginationStep]_vars
    /\ [][CrawlStepDecreases]_vars

\* The same end as a liveness property, when every enabled step is taken.
CrawlForumReturns == InCrawlForum ~> m_pc = "forums"

\* The last page the bound allows has been crawled and it has a next-page link.
C33_Witness ==
    /\ m_pc = "links" /\ link_nodes = <<>> /\ page = args.pages /\ args.pages > 1
    /\ page_next # <<>> /\ page_next[1].href # <<>>


(***************************************************************************)
(* The output of the passes of filter_records (postproc_darkforums.py,     *)
(* lines 117-203).                                                         *)
(***************************************************************************)
\* The records the strict pass has output: those of the pass under way, or those
\* it returned.
StrictOutput == IF tri_pc = "strict" THEN out_records ELSE strict_records
StrictOutputLines == IF tri_pc = "strict" THEN out_lines ELSE strict_lines

\* A URL with an announcement segment, or ending in a forum root, an action
\* parameter or a pagination parameter.
ListingURL(u) ==
    \/ \E i \in DOMAIN u : u[i] \in AnnouncementSegs
    \/ u # <<>> /\ u[Len(u)] \in (ForumRootSegs \cup ActionParams \cup PageParams)

\* C34: every record of the strict output has at least one post, each of its
\* posts has cleaned content of at least min_chars (20) characters, and its URL,
\* the thread_url of the line it was made from, matches none of the four strict
\* exclusion patterns.
C34_StrictOutputClean ==
    \A k \in DOMAIN StrictOutput :
        LET rec == StrictOutput[k] IN
        /\ rec.posts # <<>> /\ rec.post_count = Len(rec.posts)
        /\ \A j \in DOMAIN rec.posts :
              /\ rec.posts[j].content # <<>>
              /\ TextLen(rec.posts[j].content[1]) >= MIN_CHARS_STRICT
              /\ rec.posts[j] = clean_post(rec.posts[j])
        /\ rec.thread_url = tlog[StrictOutputLines[k]].obj.thread_url
        /\ ~ListingURL(rec.thread_url)

\* The strict pass is over: it kept one line of the log and dropped the other,
\* a thread whose post is long enough and whose URL ends in a pagination
\* parameter.
C34_Witness ==
    /\ tri_pc # "strict" /\ Len(tlog) = 2 /\ Len(strict_records) = 1
    /\ \E n \in DOMAIN tlog :
          /\ tlog[n].kind = "json" /\ n \notin {strict_lines[k] : k \in DOMAIN strict_lines}
          /\ tlog[n].obj.thread_url[Len(tlog[n].obj.thread_url)] \in PageParams
          /\ tlog[n].obj.posts # <<>>
          /\ TextLen(ContentOf(clean_post(tlog[n].obj.posts[1]))) >= MIN_CHARS_STRICT
          /\ tlog[n].obj.title \notin {<<t>> : t \in CF_TITLES}


(***************************************************************************)
(* Logs in which threads share posts: the two levels of deduplication of   *)
(* filter_records (lines 151-169).                                         *)
(***************************************************************************)
MaxDedupLines == 3

C_long2 == Rep(20, "w") \o <<" ", "database">>
PB == LogPost(<<"h", "/Thread-a", "?pid=2">>, C_long2)
PC == LogPost(<<"h", "/Thread-x", "?pid=3">>, C_long)

DedupLines(h) ==
    {JsonLine(T_a, Title_t, <<PA>>, h),
     JsonLine(T_a, Title_t, <<PA, PA>>, h),
     JsonLine(T_a_p2, Title_t, <<PB>>, h),
     JsonLine(T_x, Title_t, <<PB>>, h),
     JsonLine(T_x, Title_t, <<PC>>, h),
     JsonLine(T_leak, Title_t, <<PC, PB>>, h)}

DedupLogs == UNION {UNION {[1..n -> DedupLines(h)] : n \in 0..MaxDedupLines} : h \in BOOLEAN}

InitDedup ==
    /\ tri_pc = "strict"
    /\ tlog \in DedupLogs
    /\ tcfg \in [keep_cf_strict : BOOLEAN, keep_threshold : {2}, drop_threshold : {0}]
    /\ line_i = 0 /\ seen_threads = {} /\ seen_posts = {}
    /\ out_records = <<>> /\ out_lines = <<>>
    /\ strict_records = <<>> /\ strict_lines = <<>>
    /\ relaxed_records = <<>> /\ relaxed_lines = <<>>
    /\ split_i = 0 /\ keep = <<>> /\ review = <<>> /\ drop_meta = <<>> /\ scores = <<>>

InitDedupRun ==
    InitDedup /\ InitFetchIdle /\ InitParseIdle /\ InitMainIdle /\ InitBatchIdle
        /\ InitReadersIdle

NextDedup ==
    \/ FilterLine
    \/ PassEnd
    \/ TriageStep
    \/ TriageEnd

SpecDedup == InitDedupRun /\ [][NextDedup]_vars

\* The (post_url, content) pair the fingerprint of a post is taken of.
Fingerprint(p) == <<p.post_url, ContentOf(p)>>

\* The posts of a list of records, each with its place: <<record, post>>.
PostPlaces(recs) == UNION {{<<k, j>> : j \in DOMAIN recs[k].posts} : k \in DOMAIN recs}

NoTwoAlike(recs) ==
    /\ \A k1, k2 \in DOMAIN recs : recs[k1].thread_hash = recs[k2].thread_hash => k1 = k2
    /\ \A a, b \in PostPlaces(recs) :
          Fingerprint(recs[a[1]].posts[a[2]]) = Fingerprint(recs[b[1]].posts[b[2]]) => a = b

\* C35: the output of a pass of filter_records, while it runs and when it has
\* returned, holds no two records with one thread key and no two posts, in one
\* record or in two, with one (post_url, content) fingerprint.
C35_OutputDeduplicated ==
    /\ NoTwoAlike(out_records)
    /\ NoTwoAlike(strict_records)
    /\ NoTwoAlike(relaxed_records)

\* The relaxed pass has returned two records of a three-line log in which a post
\* stands twice in one record and again in a later thread.
C35_Witness ==
    /\ tri_pc \in {"triage", "done"} /\ Len(tlog) = 3 /\ Len(relaxed_records) = 2
    /\ Len(tlog[1].obj.posts) = 2 /\ tlog[1].obj.posts[1] = tlog[1].obj.posts[2]
    /\ Len(relaxed_records[1].posts) = 1
    /\ \E n \in 2..3 : \E j \in DOMAIN tlog[n].obj.posts :
          /\ tlog[n].obj.posts[j] \in {tlog[m].obj.posts[i] :
                                         <<m, i>> \in {mi \in (1..(n - 1)) \X (1..2) :
                                                         mi[2] \in DOMAIN tlog[mi[1]].obj.posts}}
          /\ n \in {relaxed_lines[k] : k \in DOMAIN relaxed_lines}


\* The posts of line n of the log that get past the length test of a pass with
\* min_chars mc (lines 153-156), cleaned.
LongPosts(n, mc) ==
    {clean_post(tlog[n].obj.posts[j]) : j \in
        {j \in DOMAIN tlog[n].obj.posts :
            LET p == clean_post(tlog[n].obj.posts[j]) IN
            ~(mc > 0 /\ (p.content = <<>> \/ TextLen(p.content[1]) < mc))}}

FingerprintsIn(recs) == {Fingerprint(recs[a[1]].posts[a[2]]) : a \in PostPlaces(recs)}

\* Every post of the lines the records recs were made from is in recs, under its
\* fingerprint, if it got past the length test.
NothingLost(recs, lines, mc) ==
    \A k \in DOMAIN recs : \A p \in LongPosts(lines[k], mc) :
        Fingerprint(p) \in FingerprintsIn(recs)

\* C36 (as claimed): when a pass has returned, a post missing from a record of
\* its output was removed for a post of the output: its fingerprint is that of a
\* post in some record of the output.
C36_RemovedOnlyForOutputPost ==
    /\ tri_pc # "strict" => NothingLost(strict_records, strict_lines, MIN_CHARS_STRICT)
    /\ tri_pc \in {"triage", "done"} =>
          NothingLost(relaxed_records, relaxed_lines, MIN_CHARS_RELAXED)

\* The lines before line n that reached the loop over the posts in a pass with
\* parameters par: JSON lines neither excluded by URL nor taken for a block page.
ReachedPosts(n, par) ==
    {m \in 1..(n - 1) :
        /\ tlog[m].kind = "json"
        /\ ~exclude_url(tlog[m].obj.thread_url, par.exclude_url_patterns)
        /\ ~is_cloudflare_block(tlog[m].obj.title, tlog[m].obj.posts, par.keep_cf)}

\* What holds: a post missing from a record was removed for a post of the same
\* line or of an earlier line that reached the loop over the posts, whether or
\* not that line's thread was kept.
SeenBefore(recs, lines, par) ==
    \A k \in DOMAIN recs : \A p \in LongPosts(lines[k], par.min_chars) :
        \/ Fingerprint(p) \in {Fingerprint(recs[k].posts[j]) : j \in DOMAIN recs[k].posts}
        \/ \E m \in ReachedPosts(lines[k], par) :
              Fingerprint(p) \in {Fingerprint(q) : q \in LongPosts(m, par.min_chars)}

C36_RemovedForEarlierPost ==
    /\ tri_pc # "strict" => SeenBefore(strict_records, strict_lines, pass_params("strict", tcfg))
    /\ tri_pc \in {"triage", "done"} =>
          SeenBefore(relaxed_records, relaxed_lines, pass_params("relaxed", tcfg))


ThreadKeys(recs) == {recs[k].thread_hash : k \in DOMAIN recs}

\* C37: when both passes of a run have returned, every thread key of the strict
\* output is a thread key of the relaxed output.
C37_RelaxedKeepsStrictThreads ==
    tri_pc \in {"triage", "done"} => ThreadKeys(strict_records) \subseteq ThreadKeys(relaxed_records)

\* Both passes have returned; a thread the strict pass output with a post is in
\* the relaxed output under the same key without any post, the post having gone
\* to a thread only the relaxed pass lets through.
C37_Witness ==
    /\ tri_pc \in {"triage", "done"} /\ ~tcfg.keep_cf_strict
    /\ \E k \in DOMAIN strict_records : \E j \in DOMAIN relaxed_records :
          /\ strict_records[k].thread_hash = relaxed_records[j].thread_hash
          /\ strict_records[k].posts # <<>> /\ relaxed_records[j].posts = <<>>
    /\ Len(relaxed_records) > Len(strict_records)


(***************************************************************************)
(* run_crawl and its subprocess (under SpecChunkRun).  The subprocess is   *)
(* over when main has returned (m_pc = "saved" after save_jsonl, "done"    *)
(* when there was no record) or when run_crawl has killed it.              *)
(***************************************************************************)
ChildEnded == m_pc \in {"saved", "done", "killed"}

\* The exit status of crawl_one.py: main returns at line 574 when there is no
\* record and at its end after save_jsonl, and the interpreter exits with 0
\* either way; the exceptions of the forums are caught in main (lines 557, 569).
returncode(pc) == IF pc \in {"saved", "done"} THEN 0 ELSE 1

\* run_darkforums_batches.py lines 75-82: what run_crawl returns for the
\* subprocess as it ended, False after the timeout.
run_crawl(pc) == IF pc = "killed" THEN FALSE ELSE returncode(pc) = 0

\* C38 (as claimed): an attempt that run_crawl reports as succeeded wrote a
\* record log; an attempt without records, every fetch of which may have
\* failed, is reported as failed.
C38_SuccessOnlyWithLog ==
    (ChildEnded /\ run_crawl(m_pc)) => jsonl # <<>>

\* What holds instead: the attempt is reported as succeeded exactly when main
\* returned, with or without a log, and the log is written only with records.
C38_SuccessIffMainReturned ==
    ChildEnded =>
        /\ run_crawl(m_pc) = (m_pc # "killed")
        /\ (jsonl # <<>>) = (m_pc = "saved")
        /\ (m_pc = "done" => all_records = <<>>)

\* The second half as claimed (it fails too): no attempt in which the crawl of
\* every forum was left by an exception is reported as succeeded.
C38_AllFailedIsFailure ==
    (ChildEnded /\ aborted = {args.forums[k] : k \in DOMAIN args.forums} \cap DOMAIN Conf
        /\ aborted # {}) => ~run_crawl(m_pc)


(***************************************************************************)
(* The manifest and the files it names (under SpecQuarantine).             *)
(***************************************************************************)
\* The entry e of a manifest has its file: the file at saved_as exists and its
\* content has the size and the sha256 of the entry.
EntryHasItsFile(e) ==
    \E f \in quarantine :
        /\ f.path = e.saved_as
        /\ e.size = Len(f.content)
        /\ e.sha256 = sha256(f.content)

\* C39 (as claimed): in every manifest written, the saved_as paths of the
\* entries are pairwise distinct and every entry has its file.
C39_EntriesReferToOwnFiles ==
    \A m \in manifests :
        /\ \A i \in DOMAIN m.downloaded : \A j \in DOMAIN m.downloaded :
              i # j => m.downloaded[i].saved_as # m.downloaded[j].saved_as
        /\ \A i \in DOMAIN m.downloaded : EntryHasItsFile(m.downloaded[i])

\* What holds instead: the file every entry names exists, and the last of the
\* entries that name a file has the file's size and sha256.
C39_LastEntryOfAFileMatches ==
    \A m \in manifests : \A i \in DOMAIN m.downloaded :
        /\ \E f \in quarantine : f.path = m.downloaded[i].saved_as
        /\ (\A j \in DOMAIN m.downloaded :
               j > i => m.downloaded[j].saved_as # m.downloaded[i].saved_as)
              => EntryHasItsFile(m.downloaded[i])

\* Two entries of one manifest name the same file and differ in size or sha256.
C39_SharedFile ==
    \E m \in manifests : \E i \in DOMAIN m.downloaded : \E j \in DOMAIN m.downloaded :
        /\ i < j /\ m.downloaded[i].saved_as = m.downloaded[j].saved_as
        /\ m.downloaded[i].url # m.downloaded[j].url
        /\ ~EntryHasItsFile(m.downloaded[i]) /\ EntryHasItsFile(m.downloaded[j])


(***************************************************************************)
(* crawl_one.py, main's choice of the engine of every forum (lines         *)
(* 528-585).  A run is --engine, --forums, the "engine" entries of the     *)
(* configuration and whether playwright can be imported.  crawl_forum is   *)
(* the fetch_html calls it makes on the engine it was handed: a call       *)
(* returns, raises an exception that crawl_forum catches (a thread, line   *)
(* 362) or lets through to main (a list page, line 333), or is interrupted *)
(* by a KeyboardInterrupt, which no `except Exception` catches.            *)
(***************************************************************************)
MaxFetches == 2
MaxForumArgs == 2

EngineOptions == {"auto", "requests", "playwright"}
EngineHints == {"none", "requests", "playwright", "selenium"}
ForumArgs == UNION {[1..n -> {"f0", "f1", "f2"}] : n \in 1..MaxForumArgs}

\* conf.get(key, {}).get("engine").
forum_engine(key) == IF key \in DOMAIN e_conf THEN e_conf[key] ELSE "none"

\* (mutant) only --engine playwright opens the shared engine.
need_playwright_by_option == e_args.engine = "playwright"

\* Lines 554-557.
need_playwright ==
    \E k \in DOMAIN e_args.forums :
        \/ e_args.engine = "playwright"
        \/ (e_args.engine = "auto" /\ forum_engine(e_args.forums[k]) = "playwright")

\* Lines 532-535.
chosen(key) ==
    IF e_args.engine = "auto" /\ forum_engine(key) \in {"requests", "playwright"}
    THEN forum_engine(key)
    ELSE e_args.engine

\* Lines 530-552: the engine get_engine_for_forum returns: main's one
\* RequestsEngine, or a PlaywrightEngine just made by make_engine, which
\* nothing has entered.
get_engine_for_forum(key) ==
    IF chosen(key) = "requests" \/ chosen(key) = "auto" THEN "requests_engine"
    ELSE "PlaywrightEngine()"

\* Lines 211-217: __exit__ closes the browser when there is one.
PlaywrightEngine_exit(b) == IF b = "open" THEN "closed" ELSE b

\* _browser of the engine e as fetch_html finds it (line 222).
BrowserOf(e) == IF e = "shared_pw" THEN shared_pw ELSE "none"

EnginesOnly ==
    UNCHANGED <<fetchVars, parseVars, mainVars, histVars, triageVars, batchVars, readerVars>>

\* Lines 554-562: need_playwright, and with it the shared PlaywrightEngine is
\* made (line 189 raises without playwright) and entered (lines 196-209: the
\* launch of the browser may fail, and then there is no browser).
EngSetup ==
    /\ e_pc = "start"
    /\ IF ~need_playwright
       THEN e_pc' = "forums" /\ UNCHANGED shared_pw
       ELSE IF ~_playwright_available
       THEN e_pc' = "RuntimeError" /\ UNCHANGED shared_pw
       ELSE \/ e_pc' = "forums" /\ shared_pw' = "open"
            \/ e_pc' = "launch failed" /\ UNCHANGED shared_pw
    /\ UNCHANGED <<e_args, e_conf, _playwright_available, requests_engine, e_i, forum_eng,
                   e_fetches, fetch_calls, e_raised>>
    /\ EnginesOnly

\* Lines 563-570 and 575-582: the next forum and its engine; a key that is not
\* in the configuration is skipped, and so is a forum whose engine cannot be
\* made (lines 572, 584).
EngForum ==
    /\ e_pc = "forums" /\ e_i < Len(e_args.forums)
    /\ e_i' = e_i + 1
    /\ e_fetches' = 0
    /\ LET key == e_args.forums[e_i + 1]
           e   == IF need_playwright
                     /\ (e_args.engine = "playwright" \/ forum_engine(key) = "playwright")
                  THEN "shared_pw"
                  ELSE get_engine_for_forum(key)
       IN  IF key \notin DOMAIN e_conf
           THEN UNCHANGED <<e_pc, forum_eng, requests_engine, e_raised>>
           ELSE IF e = "PlaywrightEngine()" /\ ~_playwright_available
           THEN /\ e_raised' = e_raised \cup {key}
                /\ UNCHANGED <<e_pc, forum_eng, requests_engine>>
           ELSE /\ e_pc' = "crawl"
                /\ forum_eng' = e
                /\ requests_engine' = (requests_engine \/ e = "requests_engine")
                /\ UNCHANGED e_raised
    /\ UNCHANGED <<e_args, e_conf, _playwright_available, shared_pw, fetch_calls>>
    /\ EnginesOnly

\* One fetch_html call of crawl_forum on its engine (lines 333, 360) and how
\* it ends; on a PlaywrightEngine without browser it raises (line 223).
EngFetch ==
    /\ e_pc = "crawl" /\ e_fetches < MaxFetches
    /\ e_fetches' = e_fetches + 1
    /\ LET key == e_args.forums[e_i] IN
       /\ fetch_calls' = fetch_calls \cup
              {[key |-> key, engine |-> forum_eng, browser |-> BrowserOf(forum_eng)]}
       /\ \E end \in {"returned", "caught", "raised", "KeyboardInterrupt"} :
             /\ (forum_eng = "PlaywrightEngine()" => end \in {"caught", "raised"})
             /\ e_pc' = CASE end \in {"returned", "caught"} -> "crawl"
                          [] end = "raised" -> "forums"
                          [] OTHER -> "KeyboardInterrupt"
             /\ e_raised' = IF end = "raised" THEN e_raised \cup {key} ELSE e_raised
             /\ shared_pw' = IF end = "KeyboardInterrupt" THEN PlaywrightEngine_exit(shared_pw)
                             ELSE shared_pw
    /\ UNCHANGED <<e_args, e_conf, _playwright_available, requests_engine, e_i, forum_eng>>
    /\ EnginesOnly

\* Line 371: crawl_forum returns.
EngReturn ==
    /\ e_pc = "crawl"
    /\ e_pc' = "forums"
    /\ UNCHANGED <<e_args, e_conf, _playwright_available, requests_engine, shared_pw, e_i,
                   forum_eng, e_fetches, fetch_calls, e_raised>>
    /\ EnginesOnly

\* The loop over args.forums is over: the with statement of line 560 is left,
\* if it was entered, and main goes on to save the records (line 587).
EngLeave ==
    /\ e_pc = "forums" /\ e_i = Len(e_args.forums)
    /\ e_pc' = "after"
    /\ shared_pw' = PlaywrightEngine_exit(shared_pw)
    /\ UNCHANGED <<e_args, e_conf, _playwright_available, requests_engine, e_i, forum_eng,
                   e_fetches, fetch_calls, e_raised>>
    /\ EnginesOnly

InitEngines ==
    /\ e_pc = "start"
    /\ e_args \in [engine : EngineOptions, forums : ForumArgs]
    /\ e_conf \in [{"f1", "f2"} -> EngineHints]
    /\ _playwright_available \in BOOLEAN
    /\ requests_engine = FALSE /\ shared_pw = "none"
    /\ e_i = 0 /\ forum_eng = NoEngine /\ e_fetches = 0 /\ fetch_calls = {} /\ e_raised = {}

InitEnginesRun ==
    InitEngines /\ InitFetchIdle /\ InitParseIdle /\ InitMainIdle /\ InitTriageIdle
        /\ InitBatchIdle /\ InitAlertIdle /\ InitDetectIdle

NextEngines ==
    \/ EngSetup
    \/ EngForum
    \/ EngFetch
    \/ EngReturn
    \/ EngLeave

SpecEngines == InitEnginesRun /\ [][NextEngines]_vars

MainLeft == e_pc \in {"after", "KeyboardInterrupt", "RuntimeError", "launch failed"}

\* C40: every fetch_html call made on a PlaywrightEngine is made on the shared
\* engine while its browser is open, so never on an engine that was not
\* entered; and when main has left the loop over the forums, by its end or by
\* an exception, no browser is open.
C40_EnteredAndClosed ==
    /\ \A c \in fetch_calls :
          c.engine # "requests_engine" => (c.engine = "shared_pw" /\ c.browser = "open")
    /\ MainLeft => shared_pw # "open"
    /\ (e_pc = "crawl" /\ forum_eng # "requests_engine") =>
          (forum_eng = "shared_pw" /\ shared_pw = "open")

\* --engine auto, a forum with the hint playwright and one without: both
\* engines fetched, the crawl of a forum on the shared engine raised, the loop
\* ended and the browser is closed.
C40_Witness ==
    /\ e_pc = "after" /\ e_args.engine = "auto" /\ shared_pw = "closed"
    /\ \E c \in fetch_calls : \E d \in fetch_calls :
          /\ c.engine = "shared_pw" /\ d.engine = "requests_engine"
          /\ c.key \in e_raised

=============================================================================
